---- MODULE Spec2Model ----
(***************************************************************************)
(* toy-rpc: one client (toy-rpc/src/client/mod.rs) connected over one      *)
(* ordered byte transport to one per-connection server loop                *)
(* (src/server.rs, Server::_serve_codec).                                  *)
(*                                                                         *)
(* The client side is a set of call tasks (handle_call), one writer task   *)
(* (writer_loop / write_once) and one reader task (reader_loop /           *)
(* read_once) sharing the pending map and the request channel.  Every      *)
(* .await of the source is a point where the tasks interleave, so each     *)
(* action below is the code between two awaits.                            *)
(***************************************************************************)
EXTENDS Integers, Sequences, FiniteSets, TLC

(***************************************************************************)
(* Bounds                                                                  *)
(***************************************************************************)
\* number of Client::call invocations explored
MaxCalls == 3
\* MessageId is u16 in the source, so the counter wraps at 2^16; the id space
\* is scaled down so that the wrap is reached within MaxCalls calls
MessageIdModulus == 2
\* number of Call::cancel invocations explored
MaxCancels == 1
\* the largest number an error carries in its message
MaxLength == 2
\* number of Client::call invocations explored together with the drop of the
\* Client and with read errors
MaxLifeCalls == 2
\* number of requests and stray bytes a peer writes before it closes
MaxRequests == 3
\* PayloadLen is u32 in the source (frame.rs 27), so the longest payload has
\* 2^32 - 1 bytes; the width is scaled down so that a longer payload can be built
PayloadLenBits == 5
\* how many bytes at the end of a stream may be lost when the connection ends
MaxCut == 2
\* the longest WebSocket message explored, in bytes or characters
MaxWsLen == 3
\* the longest service_method explored on its own, in characters
MaxNameLen == 5

Calls == 1..MaxCalls
MessageIds == 0..(MessageIdModulus - 1)
NoCall == 0

(***************************************************************************)
(* Strings are sequences of one-character strings, so that rfind, slicing  *)
(* and format! are computed and not assumed.                               *)
(***************************************************************************)
CANCELLATION_TOKEN == <<"!", "C", "A", "N", "C", "E", "L">>
CANCELLATION_TOKEN_DELIM == <<".">>

EchoName == <<"E", "c", "h", "o">>
EchoI32Name == <<"e", "c", "h", "o", "_", "i", "3", "2">>
FiniteLoopName == <<"f", "i", "n", "i", "t", "e", "_", "l", "o", "o", "p">>
NoSuchName == <<"N", "o", "S", "u", "c", "h">>
MethodName == <<"m", "e", "t", "h", "o", "d">>

Digits == <<"0", "1", "2", "3", "4", "5", "6", "7", "8", "9">>

\* format!("{}", id) of an unsigned integer: its decimal digits
RECURSIVE ToDecimal(_)
ToDecimal(n) ==
    IF n < 10 THEN <<Digits[n + 1]>>
    ELSE ToDecimal(n \div 10) \o <<Digits[(n % 10) + 1]>>

(***************************************************************************)
(* Bodies: what a body frame carries once (de)serialized.  One record      *)
(* shape for every type so that any two bodies can be compared.            *)
(*   t = "i32" (n), "unit", "String" (s), "RpcError" (e, s)                *)
(***************************************************************************)
I32(n) == [t |-> "i32", n |-> n, s |-> <<>>, e |-> ""]
Unit == [t |-> "unit", n |-> 0, s |-> <<>>, e |-> ""]
Str(s) == [t |-> "String", n |-> 0, s |-> s, e |-> ""]
RpcErrorBody(e, s) == [t |-> "RpcError", n |-> 0, s |-> s, e |-> e]

RequestHeader(id, service_method) == [id |-> id, service_method |-> service_method]
ResponseHeader(id, is_error) == [id |-> id, is_error |-> is_error]

\* the argument call number c passes: every call sends a different number
ArgOf(c) == 10 + c

\* what Client::call may be asked to send: (service_method, args), to a
\* registered service and to one that is not registered
CallInputs(c) ==
    { [service_method |-> EchoName \o <<".">> \o EchoI32Name, body |-> I32(ArgOf(c))],
      [service_method |-> NoSuchName \o <<".">> \o MethodName, body |-> I32(ArgOf(c))] }

VARIABLES
    \* ---- Client (client/mod.rs 83-96)
    count,        \* Client.count: the next MessageId
    pending,      \* Client.pending: MessageId -> call whose resp_tx is stored (NoCall: absent)
    requests,     \* Client.requests: the channel feeding the writer task
    \* ---- one call task per Client::call
    nIssued,      \* how many calls were made so far
    pc,           \* where handle_call of each call is
    callReq,      \* (header, body) handed to handle_call
    cancelCh,     \* the cancel oneshot: st = "open" | "sent", and the id sent
    respCh,       \* the (resp_tx, resp_rx) oneshot of handle_call
    done,         \* the done oneshot towards the caller's Call future
    \* ---- writer task
    writing,      \* the request write_once took and whose body frame is still to write
    \* ---- the transport, one frame sequence per direction
    c2s,
    s2c,
    \* ---- Server::_serve_codec
    spc,          \* "header" | "body" | "err" (the loop returned Err)
    scur,         \* id and method name of the request being served
    \* ---- history
    sent,         \* per call: what its task pushed to the request channel
    afterCancel,  \* per call: was a sentinel already enqueued when it was issued
    srvReceived,  \* request headers _serve_codec read
    srvResponded, \* responses (header, body) _serve_codec wrote
    lastRead,     \* what the last read_once did
    \* ---- the lifetime of the Client and of its two tasks
    dropped,      \* Drop for Client has run
    reader_stop,  \* stop signals waiting in the reader's stop channel
    writer_stop,  \* stop signals waiting in the writer's stop channel
    rpc,          \* reader_loop: "running" | "exited"
    wpc,          \* writer_loop: "running" | "draining" | "exited"
    drained,      \* what requests.drain() took and the writer still has to write
    \* ---- history of the two tasks
    taken,        \* requests the writer task received from the request channel
    written,      \* frames the writer task wrote to the codec
    pushedAtDrop, \* requests that had been pushed when the Client was dropped
    readErrs,     \* the errors read_once returned to reader_loop
    broken,       \* the connection is broken: a write on it fails
    writeErrs,    \* the errors write_once returned to writer_loop
    \* ---- a peer that writes bytes to the server and closes the connection
    wire,         \* the bytes the server has still to read
    peer,         \* history: what the peer sent
    frameRes,     \* history: what the last read_frame of the server returned
    \* ---- a function of the source applied to one input
    arg,          \* the input
    ret,          \* the value returned, NoValue before the application
    \* ---- the caller that holds the Call of each call
    observed      \* history: what the Call future of each call resolved with

vars == <<count, pending, requests, nIssued, pc, callReq, cancelCh, respCh, done,
          writing, c2s, s2c, spc, scur, sent, afterCancel, srvReceived,
          srvResponded, lastRead, dropped, reader_stop, writer_stop, rpc, wpc,
          drained, taken, written, pushedAtDrop, readErrs, broken, writeErrs,
          wire, peer, frameRes, arg, ret, observed>>

clientVars == <<count, pending, requests, nIssued, pc, callReq, cancelCh, respCh,
                done, sent, afterCancel>>
serverVars == <<spc, scur, srvReceived, srvResponded>>
writeErrVars == <<broken, writeErrs>>
lifeVars == <<dropped, reader_stop, writer_stop, rpc, wpc, drained, taken, written,
              pushedAtDrop, readErrs, writeErrVars>>
wireVars == <<wire, peer, frameRes>>
fnVars == <<arg, ret>>
callerVars == <<observed>>

NoBody == Unit
NoRequest == [header |-> RequestHeader(0, <<>>), body |-> NoBody]
NoResult == [ok |-> FALSE, body |-> NoBody]

\* what a read_once did: the id it read, the call whose sender it removed from
\* the pending map (NoCall: none), whether that call's receiver got the
\* response, and whether read_once returned Err
ReadRecord(id, entry, woke, err) == [id |-> id, entry |-> entry, woke |-> woke, err |-> err]
NoRead == ReadRecord(0, NoCall, FALSE, FALSE)

\* a oneshot channel: st = "none" (not created) | "empty" | "full" |
\* "closed" (sender dropped without a value) | "rx_dropped" (receiver dropped)
\* | "received" (the value was taken)
Oneshot(st, val) == [st |-> st, val |-> val]

\* transport/frame.rs Frame
Frame(message_id, frame_id, payload_type, payload) ==
    [message_id |-> message_id, frame_id |-> frame_id,
     payload_type |-> payload_type, payload |-> payload]

(***************************************************************************)
(* Bytes.  bincode with fixed-width little-endian integers, as Marshal and *)
(* Unmarshal of codec/bincode.rs 136-159 configure it, and the frame       *)
(* format of transport/frame.rs.  A byte is a number in 0..255.            *)
(***************************************************************************)
\* the w little-endian bytes of n
RECURSIVE ToLE(_, _)
ToLE(n, w) == IF w = 0 THEN <<>> ELSE <<n % 256>> \o ToLE(n \div 256, w - 1)

\* the unsigned value of little-endian bytes
RECURSIVE FromLE(_)
FromLE(b) == IF b = <<>> THEN 0 ELSE b[1] + 256 * FromLE(Tail(b))

AllZero(b) == \A i \in 1..Len(b) : b[i] = 0

\* the characters of codes 32..126, in order (codes 34, 92 and 96 by name)
Printable ==
   <<
      " ", "!", "QUOTE", "#", "$", "%", "&", "'", "(", ")", "*", "+",
      ",", "-", ".", "/", "0", "1", "2", "3", "4", "5", "6", "7",
      "8", "9", ":", ";", "<", "=", ">", "?", "@", "A", "B", "C",
      "D", "E", "F", "G", "H", "I", "J", "K", "L", "M", "N", "O",
      "P", "Q", "R", "S", "T", "U", "V", "W", "X", "Y", "Z", "[",
      "BACKSLASH", "]", "^", "_", "BACKTICK", "a", "b", "c", "d", "e", "f", "g",
      "h", "i", "j", "k", "l", "m", "n", "o", "p", "q", "r", "s",
      "t", "u", "v", "w", "x", "y", "z", "{", "|", "}", "~"
   >>
Ord(ch) == 31 + (CHOOSE i \in 1..Len(Printable) : Printable[i] = ch)
Chr(b) == Printable[b - 31]

\* a String: its length as u64, then its bytes
MarshalString(s) == ToLE(Len(s), 8) \o [i \in 1..Len(s) |-> Ord(s[i])]

\* RequestHeader {id: u16, service_method: String}
MarshalRequestHeader(h) == ToLE(h.id, 2) \o MarshalString(h.service_method)

\* ResponseHeader {id: u16, is_error: bool}
MarshalResponseHeader(h) == ToLE(h.id, 2) \o <<IF h.is_error THEN 1 ELSE 0>>

\* error.rs 54-62: the variants of RpcError in declaration order
RpcErrorVariants ==
    <<"ParseError", "InvalidRequest", "MethodNotFound", "InvalidParams",
      "InternalError", "ServerError">>
VariantIndex(e) == (CHOOSE i \in 1..Len(RpcErrorVariants) : RpcErrorVariants[i] = e) - 1

\* a body: an i32 (not negative here), (), a String, or an RpcError, which is
\* its variant index as u32 and, for ServerError, the String
MarshalBody(b) ==
    CASE b.t = "i32" -> ToLE(b.n, 4)
      [] b.t = "unit" -> <<>>
      [] b.t = "String" -> MarshalString(b.s)
      [] b.t = "RpcError" ->
            ToLE(VariantIndex(b.e), 4)
                \o (IF b.e = "ServerError" THEN MarshalString(b.s) ELSE <<>>)

\* Marshal::marshal (bincode.rs 136-146)
Marshal(val) ==
    IF "service_method" \in DOMAIN val THEN MarshalRequestHeader(val)
    ELSE IF "is_error" \in DOMAIN val THEN MarshalResponseHeader(val)
    ELSE MarshalBody(val)

\* Unmarshal::unmarshal::<RequestHeader> (bincode.rs 148-159): two bytes of id,
\* eight of length, then exactly that many bytes; fewer bytes are an
\* unexpected end, more are rejected as trailing bytes
UnmarshalRequestHeader(buf) ==
    LET fail == [ok |-> FALSE, header |-> RequestHeader(0, <<>>)]
    IN  IF Len(buf) < 10 THEN fail
        ELSE LET len == SubSeq(buf, 3, 10)
                 str == SubSeq(buf, 11, Len(buf))
             IN  IF ~AllZero(SubSeq(len, 4, 8)) THEN fail
                 ELSE IF FromLE(SubSeq(len, 1, 3)) # Len(str) THEN fail
                 ELSE [ok |-> TRUE,
                       header |-> RequestHeader(FromLE(SubSeq(buf, 1, 2)),
                                                [i \in 1..Len(str) |-> Chr(str[i])])]

\* erased_serde::deserialize::<i32> over the deserializer read_body returns
\* (bincode.rs 84-96): the first four bytes, two's complement; bytes after
\* them are not looked at
DeserializeI32(buf) ==
    buf[1] + 256 * buf[2] + 65536 * buf[3]
        + (2^24) * (IF buf[4] >= 128 THEN buf[4] - 256 ELSE buf[4])

\* frame.rs 28
MAGIC == 13

\* frame.rs 107-125: PayloadType to and from u8
PayloadTypeToU8(t) == IF t = "Header" THEN 0 ELSE IF t = "Data" THEN 1 ELSE 2
PayloadTypeFromU8(b) == IF b = 0 THEN "Header" ELSE IF b = 1 THEN "Data" ELSE "Trailer"

\* FrameHeader::to_vec (frame.rs 85-90): message_id u16, frame_id u8,
\* payload_type u8, payload_len u32
FrameHeaderToVec(message_id, frame_id, payload_type, payload_len) ==
    ToLE(message_id, 2) \o <<frame_id>> \o <<payload_type>> \o ToLE(payload_len, 4)

\* frame.rs 31-34: the serialized size of a FrameHeader
HEADER_LEN == Len(FrameHeaderToVec(0, 0, 0, 0))

\* write_frame (frame.rs 210-244): magic, header, payload
WriteFrame(frame) ==
    <<MAGIC>>
        \o FrameHeaderToVec(frame.message_id, frame.frame_id,
                            PayloadTypeToU8(frame.payload_type), Len(frame.payload))
        \o frame.payload

\* the error of frame.rs 178-185 (the first sentence of its message)
MagicMismatch ==
    [kind |-> "TransportError",
     msg |-> <<"M", "a", "g", "i", "c", " ", "b", "y", "t", "e", " ",
               "m", "i", "s", "m", "a", "t", "c", "h", ".">>,
     expected |-> 0, found |-> 0]
NoError == [kind |-> "", msg |-> <<>>, expected |-> 0, found |-> 0]
NoFrame == Frame(0, 0, "Header", <<>>)

\* what read_frame returns, the first byte it read (-1: none) and the bytes
\* it leaves unread; as history also the number of responses written so far
\* and whether the loop asked for a header or for a body, the ids of the
\* frame read and whether the codec returned Ok for it
FrameResult(kind, frame, err, first, rest) ==
    [kind |-> kind, frame |-> frame, err |-> err, first |-> first, rest |-> rest]
NoFrameRes ==
    [kind |-> "", err |-> NoError, first |-> -1, responded |-> 0, at |-> "",
     message_id |-> 0, frame_id |-> 0, accepted |-> FALSE]

\* a read_frame that takes any first byte for the magic byte
ReadFrame_AnyMagic(bytes) ==
    IF Len(bytes) < 1 + HEADER_LEN
    THEN FrameResult("None", NoFrame, NoError,
                     IF bytes = <<>> THEN -1 ELSE bytes[1], <<>>)
    ELSE LET len == SubSeq(bytes, 6, 9)
             after == SubSeq(bytes, 2 + HEADER_LEN, Len(bytes))
         IN  IF ~AllZero(SubSeq(len, 3, 4)) \/ FromLE(SubSeq(len, 1, 2)) > Len(after)
             THEN FrameResult("None", NoFrame, NoError, bytes[1], <<>>)
             ELSE FrameResult("Frame",
                      Frame(FromLE(SubSeq(bytes, 2, 3)), bytes[4],
                            PayloadTypeFromU8(bytes[5]),
                            SubSeq(after, 1, FromLE(SubSeq(len, 1, 2)))),
                      NoError, bytes[1],
                      SubSeq(after, FromLE(SubSeq(len, 1, 2)) + 1, Len(after)))

\* read_frame (frame.rs 173-205): None at the end of the stream, and on a
\* read_exact that finds fewer bytes than asked (`.ok()?`); Some(Err) on a
\* first byte that is not MAGIC; else the header and payload_len payload bytes
ReadFrame(bytes) ==
    IF bytes = <<>>
    THEN FrameResult("None", NoFrame, NoError, -1, <<>>)
    ELSE IF bytes[1] # MAGIC
    THEN FrameResult("Err", NoFrame, MagicMismatch, bytes[1], Tail(bytes))
    ELSE IF Len(bytes) < 1 + HEADER_LEN
    THEN FrameResult("None", NoFrame, NoError, bytes[1], <<>>)
    ELSE LET len == SubSeq(bytes, 6, 9)
             after == SubSeq(bytes, 2 + HEADER_LEN, Len(bytes))
         IN  IF ~AllZero(SubSeq(len, 3, 4)) \/ FromLE(SubSeq(len, 1, 2)) > Len(after)
             THEN FrameResult("None", NoFrame, NoError, bytes[1], <<>>)
             ELSE FrameResult("Frame",
                      Frame(FromLE(SubSeq(bytes, 2, 3)), bytes[4],
                            PayloadTypeFromU8(bytes[5]),
                            SubSeq(after, 1, FromLE(SubSeq(len, 1, 2)))),
                      NoError, bytes[1],
                      SubSeq(after, FromLE(SubSeq(len, 1, 2)) + 1, Len(after)))

\* PayloadLen::MAX (frame.rs 27, 219)
PayloadLenMAX == 2^PayloadLenBits - 1

\* AsyncWriteExt::write(buf) (frame.rs 233, 236, 240): the stream takes the
\* first bytes of buf, at most `accepts` of them, and returns how many it took;
\* write_frame does not look at that number
Write(buf, accepts) ==
    SubSeq(buf, 1, IF Len(buf) <= accepts THEN Len(buf) ELSE accepts)

\* the error of frame.rs 219-227
PayloadLengthExceeded(found) ==
    [kind |-> "TransportError",
     msg |-> <<"P", "a", "y", "l", "o", "a", "d", " ", "l", "e", "n", "g", "t", "h", " ",
               "e", "x", "c", "e", "e", "d", "e", "d", " ",
               "m", "a", "x", "i", "m", "u", "m", ".", " ", "M", "a", "x", " ", "i", "s", " ">>
             \o ToDecimal(PayloadLenMAX)
             \o <<",", " ", "f", "o", "u", "n", "d", " ">>
             \o ToDecimal(found),
     expected |-> PayloadLenMAX, found |-> found]

\* a write_frame without the check of the payload length
WriteFrameTo_Unchecked(frame, accepts) ==
    LET payload_len == Len(frame.payload) % (PayloadLenMAX + 1)
    IN  [ok |-> TRUE, err |-> NoError, payload_len |-> payload_len,
         bytes |-> Write(<<MAGIC>>, accepts)
                     \o Write(FrameHeaderToVec(frame.message_id, frame.frame_id,
                                               PayloadTypeToU8(frame.payload_type),
                                               payload_len), accepts)
                     \o Write(frame.payload, accepts)]

\* write_frame (frame.rs 210-244) on a stream that takes at most `accepts`
\* bytes in one write: Err before any write when the payload is longer than
\* PayloadLen::MAX; else the header with payload.len() as u32 is built and
\* magic, header and payload are handed to one write each
WriteFrameTo(frame, accepts) ==
    IF Len(frame.payload) > PayloadLenMAX
    THEN [ok |-> FALSE, err |-> PayloadLengthExceeded(Len(frame.payload)),
          payload_len |-> 0, bytes |-> <<>>]
    ELSE LET payload_len == Len(frame.payload) % (PayloadLenMAX + 1)
         IN  [ok |-> TRUE, err |-> NoError, payload_len |-> payload_len,
              bytes |-> Write(<<MAGIC>>, accepts)
                          \o Write(FrameHeaderToVec(frame.message_id, frame.frame_id,
                                                    PayloadTypeToU8(frame.payload_type),
                                                    payload_len), accepts)
                          \o Write(frame.payload, accepts)]

\* the peer of the wire: nothing sent
NoPeer == [script |-> <<>>, cut |-> 0]

\* no input, no return value
NoValue == [kind |-> "none"]

\* the client as Client::new built it and the server at its first read
InitSystem ==
    /\ count = 0
    /\ pending = [id \in MessageIds |-> NoCall]
    /\ requests = <<>>
    /\ nIssued = 0
    /\ pc = [c \in Calls |-> "unissued"]
    /\ callReq = [c \in Calls |-> NoRequest]
    /\ cancelCh = [c \in Calls |-> [st |-> "open", id |-> 0]]
    /\ respCh = [c \in Calls |-> Oneshot("none", NoResult)]
    /\ done = [c \in Calls |-> Oneshot("none", NoResult)]
    /\ writing = <<>>
    /\ c2s = <<>>
    /\ s2c = <<>>
    /\ spc = "header"
    /\ scur = [id |-> 0, method_name |-> <<>>]
    /\ sent = [c \in Calls |-> <<>>]
    /\ afterCancel = [c \in Calls |-> FALSE]
    /\ srvReceived = <<>>
    /\ srvResponded = <<>>
    /\ lastRead = NoRead
    /\ dropped = FALSE
    /\ reader_stop = 0
    /\ writer_stop = 0
    /\ rpc = "running"
    /\ wpc = "running"
    /\ drained = <<>>
    /\ taken = <<>>
    /\ written = <<>>
    /\ pushedAtDrop = {}
    /\ readErrs = <<>>
    /\ broken = FALSE
    /\ writeErrs = <<>>
    /\ observed = [c \in Calls |-> <<>>]

\* no function is applied on its own
InitNoFunction ==
    /\ arg = NoValue
    /\ ret = NoValue

\* the server reads what the client wrote, not the bytes of another peer
InitNoPeer ==
    /\ wire = <<>>
    /\ peer = NoPeer
    /\ frameRes = NoFrameRes

Init ==
    /\ InitSystem
    /\ InitNoPeer
    /\ InitNoFunction

(***************************************************************************)
(* Client::call and Call::cancel (client/async_std.rs, client/tokio.rs)    *)
(***************************************************************************)
\* the sentinel of some call is already in the request channel's history
SentinelEnqueued ==
    \E x \in Calls : \E i \in 1..Len(sent[x]) :
        sent[x][i].header.service_method = CANCELLATION_TOKEN

\* AtomicMessageId::fetch_add(1): wraps at the width of MessageId
NextMessageId(n) == (n + 1) % MessageIdModulus

\* Client::call: take the next id, build the header, spawn handle_call
Client_call(c, inp) ==
    /\ ~dropped
    /\ nIssued < MaxCalls
    /\ c = nIssued + 1
    /\ nIssued' = c
    /\ count' = NextMessageId(count)
    /\ callReq' = [callReq EXCEPT ![c] =
                     [header |-> RequestHeader(count, inp.service_method),
                      body |-> inp.body]]
    /\ pc' = [pc EXCEPT ![c] = "send"]
    /\ done' = [done EXCEPT ![c] = Oneshot("empty", NoResult)]
    /\ afterCancel' = [afterCancel EXCEPT ![c] = SentinelEnqueued]
    /\ UNCHANGED <<pending, requests, cancelCh, respCh, sent, writing, c2s, s2c,
                   serverVars, lastRead, lifeVars, wireVars, fnVars, callerVars>>

\* Call::cancel(self): send the call's id over the cancel channel; the Call,
\* and with it the receiver of done, is consumed
Call_cancel(c) ==
    /\ pc[c] \in {"send", "insert", "select"}
    /\ cancelCh[c].st = "open"
    /\ done[c].st = "empty"
    /\ Cardinality({x \in Calls : cancelCh[x].st = "sent"}) < MaxCancels
    /\ cancelCh' = [cancelCh EXCEPT ![c] = [st |-> "sent", id |-> callReq[c].header.id]]
    /\ done' = [done EXCEPT ![c] = Oneshot("rx_dropped", NoResult)]
    /\ UNCHANGED <<count, pending, requests, nIssued, pc, callReq, respCh, sent,
                   afterCancel, writing, c2s, s2c, serverVars, lastRead,
                   lifeVars, wireVars, fnVars, callerVars>>

(***************************************************************************)
(* handle_call (client/mod.rs 209-253)                                     *)
(***************************************************************************)
\* 220-221: request_tx.send_async((header, body)).await
handle_call_send(c) ==
    /\ pc[c] = "send"
    /\ wpc # "exited"
    /\ requests' = Append(requests, callReq[c])
    /\ sent' = [sent EXCEPT ![c] = Append(@, callReq[c])]
    /\ pc' = [pc EXCEPT ![c] = "insert"]
    /\ UNCHANGED <<count, pending, nIssued, callReq, cancelCh, respCh, done,
                   afterCancel, writing, c2s, s2c, serverVars, lastRead,
                   lifeVars, wireVars, fnVars, callerVars>>

\* HashMap::insert: the entry of id now holds c's sender, whatever it held
PendingInsert(p, id, c) == [p EXCEPT ![id] = c]

\* 223-229: create the response oneshot, lock the map, insert the sender.
\* A sender the insert replaces is dropped, which closes its channel.
handle_call_insert(c) ==
    LET id == callReq[c].header.id
        old == pending[id]
    IN  /\ pc[c] = "insert"
        /\ pending' = PendingInsert(pending, id, c)
        /\ respCh' = [x \in Calls |->
                        IF x = c THEN Oneshot("empty", NoResult)
                        ELSE IF x = old /\ respCh[x].st = "empty"
                             THEN Oneshot("closed", NoResult)
                        ELSE respCh[x]]
        /\ pc' = [pc EXCEPT ![c] = "select"]
        /\ UNCHANGED <<count, requests, nIssued, callReq, cancelCh, done, sent,
                       afterCancel, writing, c2s, s2c, serverVars, lastRead,
                       lifeVars, wireVars, fnVars, callerVars>>

\* a cancellation body without the delimiter
CancellationBody_NoDelim(id) == CANCELLATION_TOKEN \o ToDecimal(id)

\* 238-239: format!("{}{}{}", CANCELLATION_TOKEN, CANCELLATION_TOKEN_DELIM, id)
CancellationBody(id) ==
    CANCELLATION_TOKEN \o CANCELLATION_TOKEN_DELIM \o ToDecimal(id)

\* 234-240: the sentinel request for the id received over the cancel channel
CancellationRequest(id) ==
    [header |-> RequestHeader(id, CANCELLATION_TOKEN),
     body |-> Str(CancellationBody(id))]

\* a cancel branch that enqueues the sentinel and goes on waiting for the
\* response with the handle_response future alive
handle_call_select_cancel_KeepWaiting(c) ==
    /\ pc[c] = "select"
    /\ cancelCh[c].st = "sent"
    /\ wpc # "exited"
    /\ requests' = Append(requests, CancellationRequest(cancelCh[c].id))
    /\ sent' = [sent EXCEPT ![c] = Append(@, CancellationRequest(cancelCh[c].id))]
    /\ cancelCh' = [cancelCh EXCEPT ![c] = [st |-> "received", id |-> @.id]]
    /\ UNCHANGED <<count, pending, nIssued, pc, callReq, respCh, done, afterCancel,
                   writing, c2s, s2c, serverVars, lastRead, lifeVars,
                   wireVars, fnVars, callerVars>>

\* 232-243: select! takes the cancel branch; the handle_response future, which
\* owns resp_rx and done, is dropped
handle_call_select_cancel(c) ==
    /\ pc[c] = "select"
    /\ cancelCh[c].st = "sent"
    /\ wpc # "exited"
    /\ requests' = Append(requests, CancellationRequest(cancelCh[c].id))
    /\ sent' = [sent EXCEPT ![c] = Append(@, CancellationRequest(cancelCh[c].id))]
    /\ respCh' = [respCh EXCEPT ![c] = Oneshot("rx_dropped", NoResult)]
    /\ done' = [done EXCEPT ![c] =
                  IF @.st = "empty" THEN Oneshot("closed", NoResult) ELSE @]
    /\ pc' = [pc EXCEPT ![c] = "cancelled"]
    /\ UNCHANGED <<count, pending, nIssued, callReq, cancelCh, afterCancel,
                   writing, c2s, s2c, serverVars, lastRead, lifeVars,
                   wireVars, fnVars, callerVars>>

\* the Res of Call<Res>: every call explored expects an i32 reply
ResType == "i32"

\* an Error that is not an RpcError, as the caller sees it
ErrorValue(kind) == [t |-> kind, n |-> 0, s |-> <<>>, e |-> ""]

\* handle_response 266-273: Ok(body) deserializes into Res, Err(body) into the
\* error message of the server; a body of another type is a ParseError
HandleResponseResult(val) ==
    IF val.ok
    THEN IF val.body.t = ResType THEN [ok |-> TRUE, body |-> val.body]
         ELSE [ok |-> FALSE, body |-> ErrorValue("ParseError")]
    ELSE IF val.body.t = "RpcError" THEN [ok |-> FALSE, body |-> val.body]
         ELSE [ok |-> FALSE, body |-> ErrorValue("ParseError")]

\* 244-249 and handle_response 255-278: select! takes the response branch.
\* A closed response channel is Err(Internal): done is dropped without a value.
handle_call_select_response(c) ==
    /\ pc[c] = "select"
    /\ respCh[c].st \in {"full", "closed"}
    /\ done' = [done EXCEPT ![c] =
                  IF @.st # "empty" THEN @
                  ELSE IF respCh[c].st = "full"
                       THEN Oneshot("full", HandleResponseResult(respCh[c].val))
                       ELSE Oneshot("closed", NoResult)]
    /\ respCh' = [respCh EXCEPT ![c] =
                    IF @.st = "full" THEN Oneshot("received", NoResult) ELSE @]
    /\ pc' = [pc EXCEPT ![c] = "done"]
    /\ UNCHANGED <<count, pending, requests, nIssued, callReq, cancelCh, sent,
                   afterCancel, writing, c2s, s2c, serverVars, lastRead,
                   lifeVars, wireVars, fnVars, callerVars>>

(***************************************************************************)
(* writer task: write_once (client/mod.rs 197-207); the codec writes a     *)
(* request as a header frame (frame_id 0, Header) and then a body frame    *)
(* (frame_id 1, Data) with the header's id (codec/bincode.rs 106-132)      *)
(***************************************************************************)
HeaderFrame(header) == Frame(header.id, 0, "Header", header)
BodyFrame(message_id, body) == Frame(message_id, 1, "Data", body)

\* 201-204 up to the await inside write_request after the header frame
write_once_header ==
    /\ wpc = "running"
    /\ ~broken
    /\ writing = <<>>
    /\ requests # <<>>
    /\ requests' = Tail(requests)
    /\ writing' = <<Head(requests)>>
    /\ c2s' = Append(c2s, HeaderFrame(Head(requests).header))
    /\ taken' = Append(taken, Head(requests))
    /\ written' = Append(written, HeaderFrame(Head(requests).header))
    /\ UNCHANGED <<count, pending, nIssued, pc, callReq, cancelCh, respCh, done,
                   sent, afterCancel, s2c, serverVars, lastRead, dropped,
                   reader_stop, writer_stop, rpc, wpc, drained, pushedAtDrop,
                   readErrs, writeErrVars, wireVars, fnVars, callerVars>>

\* the rest of write_request: the body frame
write_once_body ==
    /\ wpc = "running"
    /\ ~broken
    /\ writing # <<>>
    /\ c2s' = Append(c2s, BodyFrame(writing[1].header.id, writing[1].body))
    /\ written' = Append(written, BodyFrame(writing[1].header.id, writing[1].body))
    /\ writing' = <<>>
    /\ UNCHANGED <<count, pending, requests, nIssued, pc, callReq, cancelCh, respCh,
                   done, sent, afterCancel, s2c, serverVars, lastRead, dropped,
                   reader_stop, writer_stop, rpc, wpc, drained, taken,
                   pushedAtDrop, readErrs, writeErrVars, wireVars, fnVars, callerVars>>

(***************************************************************************)
(* reader task: read_once (client/mod.rs 132-168)                          *)
(***************************************************************************)
\* 150-153
ResponseResult(is_error, body) == [ok |-> ~is_error, body |-> body]

\* 158: HashMap::remove
PendingRemove(p, id) == [p EXCEPT ![id] = NoCall]

\* 136-165: read the header frame and the body frame, then remove the entry of
\* header.id and send the result to its receiver; a send to a dropped receiver
\* makes read_once return Err(Internal)
read_once ==
    /\ rpc = "running"
    /\ Len(s2c) >= 2
    /\ s2c[1].payload_type = "Header"
    /\ LET header == s2c[1].payload
           res == ResponseResult(header.is_error, s2c[2].payload)
           c == pending[header.id]
       IN  /\ s2c' = SubSeq(s2c, 3, Len(s2c))
           /\ IF c # NoCall
              THEN /\ pending' = PendingRemove(pending, header.id)
                   /\ IF respCh[c].st = "empty"
                      THEN /\ respCh' = [respCh EXCEPT ![c] = Oneshot("full", res)]
                           /\ lastRead' = ReadRecord(header.id, c, TRUE, FALSE)
                      ELSE /\ respCh' = respCh
                           /\ lastRead' = ReadRecord(header.id, c, FALSE, TRUE)
              ELSE /\ pending' = pending
                   /\ respCh' = respCh
                   /\ lastRead' = ReadRecord(header.id, NoCall, FALSE, FALSE)
    /\ UNCHANGED <<count, requests, nIssued, pc, callReq, cancelCh, done, sent,
                   afterCancel, writing, c2s, serverVars, lifeVars,
                   wireVars, fnVars, callerVars>>

(***************************************************************************)
(* Server::_serve_codec and Server::_send_response (src/server.rs)         *)
(***************************************************************************)
\* str::rfind: the index of the last occurrence of ch in s, 0 for None
RECURSIVE RFindFrom(_, _, _)
RFindFrom(s, ch, i) ==
    IF i = 0 THEN 0
    ELSE IF s[i] = ch THEN i
    ELSE RFindFrom(s, ch, i - 1)
RFind(s, ch) == RFindFrom(s, ch, Len(s))

\* the services registered with the ServerBuilder
RegisteredServices == {EchoName}

\* str::find: the index of the first occurrence of ch in s, 0 for None
RECURSIVE FindFrom(_, _, _)
FindFrom(s, ch, i) ==
    IF i > Len(s) THEN 0
    ELSE IF s[i] = ch THEN i
    ELSE FindFrom(s, ch, i + 1)

\* a split at the first '.'
SplitServiceMethod_First(service_method) ==
    LET pos == FindFrom(service_method, ".", 1)
    IN  [found |-> pos # 0,
         service_name |-> SubSeq(service_method, 1, pos - 1),
         method_name |-> SubSeq(service_method, pos + 1, Len(service_method))]

\* _serve_codec 66-71: rfind("."), then &service_method[..pos] and
\* &service_method[pos + 1..]; without a '.' the `?` returns MethodNotFound
SplitServiceMethod(service_method) ==
    LET pos == RFind(service_method, ".")
    IN  [found |-> pos # 0,
         service_name |-> SubSeq(service_method, 1, pos - 1),
         method_name |-> SubSeq(service_method, pos + 1, Len(service_method))]

\* a HandlerResult: Ok(reply), Err(Error::RpcError(e)) or another Err
HandlerOk(reply) == [ok |-> TRUE, err |-> "", val |-> reply]
HandlerRpcError(e) == [ok |-> FALSE, err |-> "RpcError", val |-> RpcErrorBody(e, <<>>)]

\* the Echo service of the examples: echo_i32 returns its argument,
\* finite_loop returns (), any other method is MethodNotFound
EchoService(method_name, deserializer) ==
    IF method_name = EchoI32Name THEN HandlerOk(I32(DeserializeI32(deserializer)))
    ELSE IF method_name = FiniteLoopName THEN HandlerOk(Unit)
    ELSE HandlerRpcError("MethodNotFound")

\* error.rs 4-20: the variants of Error other than RpcError; msg is what the
\* wrapped source error displays
IoError(msg) == [kind |-> "IoError", msg |-> msg, expected |-> 0, found |-> 0]
ParseError(msg) == [kind |-> "ParseError", msg |-> msg, expected |-> 0, found |-> 0]
TransportError(expected, found) ==
    [kind |-> "TransportError", msg |-> <<>>, expected |-> expected, found |-> found]
NoneError == [kind |-> "NoneError", msg |-> <<>>, expected |-> 0, found |-> 0]
HandlerErr(e) == [ok |-> FALSE, err |-> e.kind, val |-> e]

\* error.rs 34-46: Display for Error, which to_string() uses
ErrorToString(e) ==
    CASE e.kind = "IoError" -> e.msg
      [] e.kind = "ParseError" -> e.msg
      [] e.kind = "TransportError" ->
            <<"E", "x", "p", "e", "c", "t", "e", "d", ":", " ">>
                \o ToDecimal(e.expected)
                \o <<",", " ", "F", "o", "u", "n", "d", ":", " ">>
                \o ToDecimal(e.found)
      [] e.kind = "NoneError" -> <<"N", "o", "n", "e", " ", "e", "r", "r", "o", "r">>

\* a _send_response that reports every error of a handler as InternalError
SendResponse_Internal(id, res) ==
    IF res.ok
    THEN [header |-> ResponseHeader(id, FALSE), body |-> res.val]
    ELSE [header |-> ResponseHeader(id, TRUE),
          body |-> RpcErrorBody("InternalError", <<>>)]

\* _send_response 105-129: the header and the body written for a result
SendResponse(id, res) ==
    IF res.ok
    THEN [header |-> ResponseHeader(id, FALSE), body |-> res.val]
    ELSE [header |-> ResponseHeader(id, TRUE),
          body |-> IF res.err = "RpcError" THEN res.val
                   ELSE RpcErrorBody("ServerError", ErrorToString(res.val))]

\* a loop that serves every header it reads, resolved or not
serve_codec_read_header_Unchecked ==
    /\ spc = "header"
    /\ c2s # <<>>
    /\ LET header == Head(c2s).payload
       IN  /\ srvReceived' = Append(srvReceived, header)
           /\ spc' = "body"
           /\ scur' = [id |-> header.id, method_name |-> header.service_method]
    /\ c2s' = Tail(c2s)
    /\ UNCHANGED <<clientVars, writing, s2c, srvResponded, lastRead, lifeVars,
                   wireVars, fnVars, callerVars>>

\* CodecRead::read_header (bincode.rs 64-77): no frame, the error of the
\* frame, or the payload of the next frame unmarshalled
CodecReadHeader(fr) ==
    CASE fr.kind = "None" -> [kind |-> "None", header |-> RequestHeader(0, <<>>),
                              err |-> NoError]
      [] fr.kind = "Err" -> [kind |-> "Err", header |-> RequestHeader(0, <<>>),
                             err |-> fr.err]
      [] fr.kind = "Frame" ->
            LET u == UnmarshalRequestHeader(fr.frame.payload)
            IN  IF u.ok
                THEN [kind |-> "Ok", header |-> u.header, err |-> NoError]
                ELSE [kind |-> "Err", header |-> u.header, err |-> ParseError(<<>>)]

\* CodecRead::read_body (bincode.rs 79-97): no frame, the error of the frame,
\* or a deserializer over the payload of the next frame
CodecReadBody(fr) ==
    CASE fr.kind = "None" -> [kind |-> "None", deserializer |-> <<>>, err |-> NoError]
      [] fr.kind = "Err" -> [kind |-> "Err", deserializer |-> <<>>, err |-> fr.err]
      [] fr.kind = "Frame" ->
            [kind |-> "Ok", deserializer |-> fr.frame.payload, err |-> NoError]

\* CodecWrite::write_header, write_body (bincode.rs 106-132): the bytes of a
\* frame whose payload is the header or the body marshalled
Encoded(f) ==
    WriteFrame(Frame(f.message_id, f.frame_id, f.payload_type, Marshal(f.payload)))

\* what read_frame returns for the frame at the head of the client's stream
Received(f) == ReadFrame(Encoded(f))

\* 63-79: with the header read_request_header returned: None ends the loop
\* with Ok(()), an Err is returned through `?`; else split service_method at
\* the last '.' and look the service up; a missing '.' or service makes
\* _serve_codec return Err
serve_header(res) ==
    LET header == res.header
        split == SplitServiceMethod(header.service_method)
        service_name == split.service_name
        method_name == split.method_name
    IN  CASE res.kind = "None" ->
                /\ spc' = "ok"
                /\ UNCHANGED <<scur, srvReceived>>
          [] res.kind = "Err" ->
                /\ spc' = "err"
                /\ UNCHANGED <<scur, srvReceived>>
          [] res.kind = "Ok" ->
                /\ srvReceived' = Append(srvReceived, header)
                /\ IF ~split.found \/ service_name \notin RegisteredServices
                   THEN /\ spc' = "err"
                        /\ scur' = scur
                   ELSE /\ spc' = "body"
                        /\ scur' = [id |-> header.id, method_name |-> method_name]

\* a loop that hands the request to a handler task and goes back to reading
\* headers without waiting for the response to be written
serve_body_Spawned(res) ==
    CASE res.kind = "None" ->
            /\ spc' = "panic"
            /\ UNCHANGED <<s2c, srvResponded>>
      [] res.kind = "Err" ->
            /\ spc' = "err"
            /\ UNCHANGED <<s2c, srvResponded>>
      [] res.kind = "Ok" ->
            /\ spc' = "header"
            /\ UNCHANGED <<s2c, srvResponded>>

\* 81-91: with what read_request_body returned: unwrap() panics on None, an
\* Err is returned through `?`; else call the handler and write the response
serve_body(res) ==
    CASE res.kind = "None" ->
            /\ spc' = "panic"
            /\ UNCHANGED <<s2c, srvResponded>>
      [] res.kind = "Err" ->
            /\ spc' = "err"
            /\ UNCHANGED <<s2c, srvResponded>>
      [] res.kind = "Ok" ->
            LET resp == SendResponse(scur.id,
                                     EchoService(scur.method_name, res.deserializer))
            IN  /\ s2c' = s2c \o <<HeaderFrame(resp.header),
                                   BodyFrame(resp.header.id, resp.body)>>
                /\ srvResponded' = Append(srvResponded, resp)
                /\ spc' = "header"

\* one turn of the loop up to the body, on the stream of the client
serve_codec_read_header ==
    /\ spc = "header"
    /\ c2s # <<>>
    /\ serve_header(CodecReadHeader(Received(Head(c2s))))
    /\ c2s' = Tail(c2s)
    /\ UNCHANGED <<clientVars, writing, s2c, srvResponded, lastRead, lifeVars,
                   wireVars, fnVars, callerVars>>

\* the rest of the turn, on the stream of the client
serve_codec_read_body ==
    /\ spc = "body"
    /\ c2s # <<>>
    /\ serve_body(CodecReadBody(Received(Head(c2s))))
    /\ c2s' = Tail(c2s)
    /\ UNCHANGED <<clientVars, writing, scur, srvReceived, lastRead, lifeVars,
                   wireVars, fnVars, callerVars>>

\* one turn of the loop up to the body, on the bytes of the peer
serve_wire_read_header ==
    /\ spc = "header"
    /\ LET fr == ReadFrame(wire)
       IN  /\ serve_header(CodecReadHeader(fr))
           /\ wire' = fr.rest
           /\ frameRes' = [kind |-> fr.kind, err |-> fr.err, first |-> fr.first,
                           responded |-> Len(srvResponded), at |-> "header",
                           message_id |-> fr.frame.message_id,
                           frame_id |-> fr.frame.frame_id,
                           accepted |-> CodecReadHeader(fr).kind = "Ok"]
    /\ UNCHANGED <<clientVars, writing, c2s, s2c, srvResponded, lastRead, lifeVars,
                   peer, fnVars, callerVars>>

\* the rest of the turn, on the bytes of the peer
serve_wire_read_body ==
    /\ spc = "body"
    /\ LET fr == ReadFrame(wire)
       IN  /\ serve_body(CodecReadBody(fr))
           /\ wire' = fr.rest
           /\ frameRes' = [kind |-> fr.kind, err |-> fr.err, first |-> fr.first,
                           responded |-> Len(srvResponded), at |-> "body",
                           message_id |-> fr.frame.message_id,
                           frame_id |-> fr.frame.frame_id,
                           accepted |-> CodecReadBody(fr).kind = "Ok"]
    /\ UNCHANGED <<clientVars, writing, c2s, scur, srvReceived, lastRead, lifeVars,
                   peer, fnVars, callerVars>>

(***************************************************************************)
(* The lifetime of the client: Drop for Client (client/mod.rs 99-110), the *)
(* stop branches of reader_loop (112-130) and writer_loop (170-195), and   *)
(* what a call task meets once the writer is gone                          *)
(***************************************************************************)
\* every request the call tasks have pushed to the request channel
Pushed_requests == UNION {{sent[c][i] : i \in 1..Len(sent[c])} : c \in Calls}

\* a drop that signals the reader only
Client_drop_ReaderOnly ==
    /\ ~dropped
    /\ dropped' = TRUE
    /\ reader_stop' = reader_stop + 1
    /\ pushedAtDrop' = Pushed_requests
    /\ UNCHANGED <<clientVars, writing, c2s, s2c, serverVars, lastRead, rpc, wpc,
                   writer_stop, drained, taken, written, readErrs,
                   writeErrVars, wireVars, fnVars, callerVars>>

\* 99-110: one () to each stop channel; both receivers are alive, as a task
\* only ends on a stop signal
Client_drop ==
    /\ ~dropped
    /\ dropped' = TRUE
    /\ reader_stop' = reader_stop + 1
    /\ writer_stop' = writer_stop + 1
    /\ pushedAtDrop' = Pushed_requests
    /\ UNCHANGED <<clientVars, writing, c2s, s2c, serverVars, lastRead, rpc, wpc,
                   drained, taken, written, readErrs, writeErrVars, wireVars, fnVars, callerVars>>

\* 118-121: select! takes the stop branch and the task returns
reader_loop_stop ==
    /\ rpc = "running"
    /\ reader_stop > 0
    /\ reader_stop' = reader_stop - 1
    /\ rpc' = "exited"
    /\ UNCHANGED <<clientVars, writing, c2s, s2c, serverVars, lastRead, dropped,
                   writer_stop, wpc, drained, taken, written, pushedAtDrop,
                   readErrs, writeErrVars, wireVars, fnVars, callerVars>>

\* 176-178: select! takes the stop branch: the write_once future is dropped
\* where it was suspended, requests.drain() takes what the channel holds
writer_loop_stop ==
    /\ wpc = "running"
    /\ writer_stop > 0
    /\ writer_stop' = writer_stop - 1
    /\ writing' = <<>>
    /\ drained' = requests
    /\ requests' = <<>>
    /\ taken' = taken \o requests
    /\ wpc' = IF requests = <<>> THEN "exited" ELSE "draining"
    /\ UNCHANGED <<count, pending, nIssued, pc, callReq, cancelCh, respCh, done,
                   sent, afterCancel, c2s, s2c, serverVars, lastRead, dropped,
                   reader_stop, rpc, written, pushedAtDrop, readErrs,
                   writeErrVars, wireVars, fnVars, callerVars>>

\* 178-184: write_request of the next drained request, not inside a select!;
\* after the last one the task returns
writer_loop_drain ==
    /\ wpc = "draining"
    /\ drained # <<>>
    /\ LET req == Head(drained)
           frames == <<HeaderFrame(req.header), BodyFrame(req.header.id, req.body)>>
       IN  /\ c2s' = c2s \o frames
           /\ written' = written \o frames
    /\ drained' = Tail(drained)
    /\ wpc' = IF Tail(drained) = <<>> THEN "exited" ELSE "draining"
    /\ UNCHANGED <<clientVars, writing, s2c, serverVars, lastRead, dropped,
                   reader_stop, writer_stop, rpc, taken, pushedAtDrop, readErrs,
                   writeErrVars, wireVars, fnVars, callerVars>>

\* handle_call 221: send_async fails once the writer dropped the receiver of
\* the request channel; `?` ends the task and drops done
handle_call_send_closed(c) ==
    /\ pc[c] = "send"
    /\ wpc = "exited"
    /\ pc' = [pc EXCEPT ![c] = "failed"]
    /\ done' = [done EXCEPT ![c] =
                  IF @.st = "empty" THEN Oneshot("closed", NoResult) ELSE @]
    /\ UNCHANGED <<count, pending, requests, nIssued, callReq, cancelCh, respCh,
                   sent, afterCancel, writing, c2s, s2c, serverVars, lastRead,
                   lifeVars, wireVars, fnVars, callerVars>>

\* handle_call 232-241: the cancel branch when the request channel is closed:
\* the sentinel is not sent
handle_call_select_cancel_closed(c) ==
    /\ pc[c] = "select"
    /\ cancelCh[c].st = "sent"
    /\ wpc = "exited"
    /\ respCh' = [respCh EXCEPT ![c] = Oneshot("rx_dropped", NoResult)]
    /\ done' = [done EXCEPT ![c] =
                  IF @.st = "empty" THEN Oneshot("closed", NoResult) ELSE @]
    /\ pc' = [pc EXCEPT ![c] = "cancelled"]
    /\ UNCHANGED <<count, pending, requests, nIssued, callReq, cancelCh, sent,
                   afterCancel, writing, c2s, s2c, serverVars, lastRead,
                   lifeVars, wireVars, fnVars, callerVars>>

(***************************************************************************)
(* A read error of the reader task: a byte that is not MAGIC where a frame *)
(* should start (transport/frame.rs 175-185)                               *)
(***************************************************************************)
\* a byte b on the wire between two frames
StrayByte(b) == Frame(0, 0, "Stray", I32(b))
IsStray(f) == f.payload_type = "Stray"

\* the peer puts a byte that is not MAGIC on the wire, once
peer_stray_byte ==
    /\ readErrs = <<>>
    /\ \A i \in 1..Len(s2c) : ~IsStray(s2c[i])
    /\ \E b \in {0} : b # MAGIC /\ s2c' = Append(s2c, StrayByte(b))
    /\ UNCHANGED <<clientVars, writing, c2s, serverVars, lastRead, lifeVars,
                   wireVars, fnVars, callerVars>>

\* read_once 136-138 with reader_loop 123-127: read_response_header yields
\* Some(Err(TransportError)), `header?` makes read_once return it, reader_loop
\* logs it and goes round its loop again
read_once_error ==
    /\ rpc = "running"
    /\ s2c # <<>>
    /\ IsStray(Head(s2c))
    /\ Head(s2c).payload.n # MAGIC
    /\ s2c' = Tail(s2c)
    /\ readErrs' = Append(readErrs, "TransportError")
    /\ lastRead' = ReadRecord(0, NoCall, FALSE, TRUE)
    /\ UNCHANGED <<clientVars, writing, c2s, serverVars, dropped, reader_stop,
                   writer_stop, rpc, wpc, drained, taken, written, pushedAtDrop,
                   writeErrVars, wireVars, fnVars, callerVars>>

(***************************************************************************)
(* A write error of the writer task: the connection breaks, and every      *)
(* write on it fails from then on (an io::Error such as BrokenPipe)        *)
(***************************************************************************)
\* the connection breaks
transport_break ==
    /\ ~broken
    /\ broken' = TRUE
    /\ UNCHANGED <<clientVars, writing, c2s, s2c, serverVars, lastRead, dropped,
                   reader_stop, writer_stop, rpc, wpc, drained, taken, written,
                   pushedAtDrop, readErrs, writeErrs, wireVars, fnVars, callerVars>>

\* write_once 201-204 with writer_loop 187-191: a request is taken from the
\* channel, write_request fails at its header frame, `?` makes write_once
\* return the error, writer_loop logs it and goes round its loop again
write_once_error ==
    /\ wpc = "running"
    /\ broken
    /\ writing = <<>>
    /\ requests # <<>>
    /\ requests' = Tail(requests)
    /\ taken' = Append(taken, Head(requests))
    /\ writeErrs' = Append(writeErrs, "IoError")
    /\ UNCHANGED <<count, pending, nIssued, pc, callReq, cancelCh, respCh, done,
                   sent, afterCancel, writing, c2s, s2c, serverVars, lastRead,
                   dropped, reader_stop, writer_stop, rpc, wpc, drained, written,
                   pushedAtDrop, readErrs, broken, wireVars, fnVars, callerVars>>

\* the same when the connection broke after the header frame of the request
\* was written: write_request fails at its body frame
write_once_body_error ==
    /\ wpc = "running"
    /\ broken
    /\ writing # <<>>
    /\ writing' = <<>>
    /\ writeErrs' = Append(writeErrs, "IoError")
    /\ UNCHANGED <<clientVars, c2s, s2c, serverVars, lastRead, dropped,
                   reader_stop, writer_stop, rpc, wpc, drained, taken, written,
                   pushedAtDrop, readErrs, broken, wireVars, fnVars, callerVars>>

(***************************************************************************)
(* The caller and its Call: the future is polled, cancel() is invoked on   *)
(* it, or it is dropped; and what handle_call (client/mod.rs 231-243) does *)
(* when the cancel channel closes without a value                          *)
(***************************************************************************)
\* what the Call future resolved with: the value sent over done, or
\* Error::Canceled when the sender of done was dropped without a value
Outcome(kind, val) == [kind |-> kind, val |-> val]

\* the caller still holds the Call and its future has not resolved
HoldsCall(c) == done[c].st \in {"empty", "full", "closed"}

\* Future::poll for Call once done is ready: the caller gets the value, or
\* Canceled for a closed channel; the resolved Call is consumed
Call_poll(c) ==
    /\ done[c].st \in {"full", "closed"}
    /\ observed' = [observed EXCEPT ![c] =
                      Append(@, IF done[c].st = "full"
                                THEN Outcome("reply", done[c].val)
                                ELSE Outcome("Canceled", NoResult))]
    /\ done' = [done EXCEPT ![c] = Oneshot("received", NoResult)]
    /\ UNCHANGED <<count, pending, requests, nIssued, pc, callReq, cancelCh, respCh,
                   sent, afterCancel, writing, c2s, s2c, serverVars, lastRead,
                   lifeVars, wireVars, fnVars>>

\* a cancel() that sends the id and leaves the Call, and so the receiver of
\* done, with the caller
Call_cancel_ref(c) ==
    /\ pc[c] \in {"send", "insert", "select"}
    /\ cancelCh[c].st = "open"
    /\ done[c].st = "empty"
    /\ Cardinality({x \in Calls : cancelCh[x].st = "sent"}) < MaxCancels
    /\ cancelCh' = [cancelCh EXCEPT ![c] = [st |-> "sent", id |-> callReq[c].header.id]]
    /\ UNCHANGED <<count, pending, requests, nIssued, pc, callReq, respCh, done,
                   sent, afterCancel, writing, c2s, s2c, serverVars, lastRead,
                   lifeVars, wireVars, fnVars, callerVars>>

\* the caller drops the Call: the sender of the cancel channel is dropped, which
\* closes the channel if no id was sent, and so is the receiver of done
Call_drop(c) ==
    /\ pc[c] # "unissued"
    /\ HoldsCall(c)
    /\ cancelCh' = [cancelCh EXCEPT ![c] =
                      IF @.st = "open" THEN [st |-> "closed", id |-> 0] ELSE @]
    /\ done' = [done EXCEPT ![c] = Oneshot("rx_dropped", NoResult)]
    /\ UNCHANGED <<count, pending, requests, nIssued, pc, callReq, respCh, sent,
                   afterCancel, writing, c2s, s2c, serverVars, lastRead,
                   lifeVars, wireVars, fnVars, callerVars>>

\* a cancel branch that enqueues the sentinel whatever the channel returned
handle_call_select_cancel_Err_Sentinel(c) ==
    /\ pc[c] = "select"
    /\ cancelCh[c].st = "closed"
    /\ requests' = Append(requests, CancellationRequest(callReq[c].header.id))
    /\ sent' = [sent EXCEPT ![c] = Append(@, CancellationRequest(callReq[c].header.id))]
    /\ respCh' = [respCh EXCEPT ![c] = Oneshot("rx_dropped", NoResult)]
    /\ done' = [done EXCEPT ![c] =
                  IF @.st = "empty" THEN Oneshot("closed", NoResult) ELSE @]
    /\ pc' = [pc EXCEPT ![c] = "abandoned"]
    /\ UNCHANGED <<count, pending, nIssued, callReq, cancelCh, afterCancel,
                   writing, c2s, s2c, serverVars, lastRead, lifeVars,
                   wireVars, fnVars, callerVars>>

\* 232-243: the cancel receiver resolves with Err(Canceled) because its sender
\* was dropped; select! takes the cancel branch, `if let Ok(id) = res` does
\* not match and nothing is sent; the handle_response future is dropped and
\* handle_call returns Ok(())
handle_call_select_cancel_Err(c) ==
    /\ pc[c] = "select"
    /\ cancelCh[c].st = "closed"
    /\ respCh' = [respCh EXCEPT ![c] = Oneshot("rx_dropped", NoResult)]
    /\ done' = [done EXCEPT ![c] =
                  IF @.st = "empty" THEN Oneshot("closed", NoResult) ELSE @]
    /\ pc' = [pc EXCEPT ![c] = "abandoned"]
    /\ UNCHANGED <<count, pending, requests, nIssued, callReq, cancelCh, sent,
                   afterCancel, writing, c2s, s2c, serverVars, lastRead,
                   lifeVars, wireVars, fnVars, callerVars>>

(***************************************************************************)
(* The system                                                              *)
(***************************************************************************)
Next ==
    \/ \E c \in Calls : \E inp \in CallInputs(c) : Client_call(c, inp)
    \/ \E c \in Calls : Call_cancel(c)
    \/ \E c \in Calls : handle_call_send(c)
    \/ \E c \in Calls : handle_call_insert(c)
    \/ \E c \in Calls : handle_call_select_cancel(c)
    \/ \E c \in Calls : handle_call_select_response(c)
    \/ write_once_header
    \/ write_once_body
    \/ read_once
    \/ serve_codec_read_header
    \/ serve_codec_read_body

Spec == Init /\ [][Next]_vars

(***************************************************************************)
(* The system with the lifetime of the client: calls, cancellations, the   *)
(* server, the drop of the Client and the stop signals                     *)
(***************************************************************************)
LifeCalls == 1..MaxLifeCalls

NextLife ==
    \/ \E c \in LifeCalls : \E inp \in CallInputs(c) : Client_call(c, inp)
    \/ \E c \in Calls : Call_cancel(c)
    \/ \E c \in Calls : handle_call_send(c)
    \/ \E c \in Calls : handle_call_send_closed(c)
    \/ \E c \in Calls : handle_call_insert(c)
    \/ \E c \in Calls : handle_call_select_cancel(c)
    \/ \E c \in Calls : handle_call_select_cancel_closed(c)
    \/ \E c \in Calls : handle_call_select_response(c)
    \/ write_once_header
    \/ write_once_body
    \/ read_once
    \/ serve_codec_read_header
    \/ serve_codec_read_body
    \/ Client_drop
    \/ reader_loop_stop
    \/ writer_loop_stop
    \/ writer_loop_drain

SpecLife == Init /\ [][NextLife]_vars

\* select! polls the stop receiver every time the task is polled and picks
\* among the ready branches at random, so a stop signal that stays in the
\* channel is taken; the drain loop is plain sequential code
SpecLifeFair ==
    /\ Init
    /\ [][NextLife]_vars
    /\ WF_vars(reader_loop_stop)
    /\ WF_vars(writer_loop_stop)
    /\ WF_vars(writer_loop_drain)

(***************************************************************************)
(* The system with the caller of each call: the Call is awaited, cancelled *)
(* or dropped                                                              *)
(***************************************************************************)
NextCall ==
    \/ \E c \in LifeCalls : \E inp \in CallInputs(c) : Client_call(c, inp)
    \/ \E c \in Calls : Call_cancel(c)
    \/ \E c \in Calls : Call_cancel_ref(c)
    \/ \E c \in Calls : Call_drop(c)
    \/ \E c \in Calls : Call_poll(c)
    \/ \E c \in Calls : handle_call_send(c)
    \/ \E c \in Calls : handle_call_insert(c)
    \/ \E c \in Calls : handle_call_select_cancel(c)
    \/ \E c \in Calls : handle_call_select_cancel_Err(c)
    \/ \E c \in Calls : handle_call_select_response(c)
    \/ write_once_header
    \/ write_once_body
    \/ read_once
    \/ serve_codec_read_header
    \/ serve_codec_read_body

SpecCall == Init /\ [][NextCall]_vars

(***************************************************************************)
(* The system with a read error on the client's connection                 *)
(***************************************************************************)
NextReadError ==
    \/ \E c \in LifeCalls : \E inp \in CallInputs(c) : Client_call(c, inp)
    \/ \E c \in Calls : handle_call_send(c)
    \/ \E c \in Calls : handle_call_insert(c)
    \/ \E c \in Calls : handle_call_select_response(c)
    \/ write_once_header
    \/ write_once_body
    \/ read_once
    \/ read_once_error
    \/ peer_stray_byte
    \/ serve_codec_read_header
    \/ serve_codec_read_body

SpecReadError == Init /\ [][NextReadError]_vars

(***************************************************************************)
(* The system with a write error on the client's connection                *)
(***************************************************************************)
NextWriteError ==
    \/ \E c \in LifeCalls : \E inp \in CallInputs(c) : Client_call(c, inp)
    \/ \E c \in Calls : handle_call_send(c)
    \/ \E c \in Calls : handle_call_insert(c)
    \/ \E c \in Calls : handle_call_select_response(c)
    \/ write_once_header
    \/ write_once_body
    \/ write_once_error
    \/ write_once_body_error
    \/ transport_break
    \/ read_once
    \/ serve_codec_read_header
    \/ serve_codec_read_body

SpecWriteError == Init /\ [][NextWriteError]_vars

(***************************************************************************)
(* The server on the bytes of a peer that writes up to MaxRequests         *)
(* requests and stray bytes and then closes the connection, cleanly or in  *)
(* the middle of a frame                                                   *)
(***************************************************************************)
\* the bytes a peer may write where a frame should start
StrayBytes == {0}

PeerRequests ==
    {[header |-> RequestHeader(id, sm), body |-> I32(ArgOf(1))] :
        id \in MessageIds,
        sm \in {EchoName \o <<".">> \o EchoI32Name, NoSuchName \o <<".">> \o MethodName}}

PeerChunks ==
    {[kind |-> "request", req |-> r, byte |-> 0] : r \in PeerRequests}
        \cup {[kind |-> "byte", req |-> NoRequest, byte |-> b] : b \in StrayBytes}

PeerScripts == UNION {[1..n -> PeerChunks] : n \in 0..MaxRequests}

\* write_request: the header frame, then the body frame
RequestBytes(req) ==
    Encoded(HeaderFrame(req.header)) \o Encoded(BodyFrame(req.header.id, req.body))

RECURSIVE ScriptBytes(_)
ScriptBytes(script) ==
    IF script = <<>> THEN <<>>
    ELSE (IF Head(script).kind = "request" THEN RequestBytes(Head(script).req)
          ELSE <<Head(script).byte>>)
         \o ScriptBytes(Tail(script))

\* the peer wrote the bytes of a script but for the last cut of them, and closed
InitWire ==
    /\ InitSystem
    /\ InitNoFunction
    /\ frameRes = NoFrameRes
    /\ \E script \in PeerScripts :
          \E cut \in 0..Len(ScriptBytes(script)) :
              /\ peer = [script |-> script, cut |-> cut]
              /\ wire = SubSeq(ScriptBytes(script), 1, Len(ScriptBytes(script)) - cut)

NextWire ==
    \/ serve_wire_read_header
    \/ serve_wire_read_body

SpecWire == InitWire /\ [][NextWire]_vars

(***************************************************************************)
(* Server::_send_response applied to one handler result                    *)
(***************************************************************************)
\* what a source error may display
Messages == {<<>>, <<"e", "o", "f">>, EchoName}
\* the numbers a TransportError may carry
Lengths == 0..MaxLength

Replies == {I32(ArgOf(c)) : c \in Calls} \cup {Unit} \cup {Str(m) : m \in Messages}
RpcErrors ==
    {RpcErrorBody(e, <<>>) : e \in {"ParseError", "InvalidRequest", "MethodNotFound",
                                   "InvalidParams", "InternalError"}}
        \cup {RpcErrorBody("ServerError", m) : m \in Messages}
OtherErrors ==
    {IoError(m) : m \in Messages} \cup {ParseError(m) : m \in Messages}
        \cup {TransportError(x, y) : x \in Lengths, y \in Lengths} \cup {NoneError}

\* every HandlerResult: Ok(reply), Err(Error::RpcError(e)), Err(e)
HandlerResults ==
    {HandlerOk(b) : b \in Replies}
        \cup {[ok |-> FALSE, err |-> "RpcError", val |-> e] : e \in RpcErrors}
        \cup {HandlerErr(e) : e \in OtherErrors}

InitSendResponse ==
    /\ InitSystem
    /\ InitNoPeer
    /\ arg \in {[kind |-> "_send_response", id |-> id, res |-> res] :
                    id \in MessageIds, res \in HandlerResults}
    /\ ret = NoValue

\* _send_response(codec, id, res): build the response and write its two frames
send_response ==
    /\ arg.kind = "_send_response"
    /\ ret = NoValue
    /\ LET resp == SendResponse(arg.id, arg.res)
       IN  /\ ret' = [kind |-> "response", header |-> resp.header, body |-> resp.body]
           /\ s2c' = s2c \o <<HeaderFrame(resp.header),
                              BodyFrame(resp.header.id, resp.body)>>
           /\ srvResponded' = Append(srvResponded, resp)
    /\ UNCHANGED <<clientVars, writing, c2s, spc, scur, srvReceived, lastRead,
                   lifeVars, wireVars, arg, callerVars>>

NextSendResponse == send_response

SpecSendResponse == InitSendResponse /\ [][NextSendResponse]_vars

(***************************************************************************)
(* write_frame and read_frame (transport/frame.rs) applied to one Frame:   *)
(* the frame is written to a stream, the stream ends, and read_frame reads *)
(* what arrived                                                            *)
(***************************************************************************)
FrameMessageIds == {1, 258}
FrameIds == {0, 1}
PayloadTypes == {"Header", "Data", "Trailer"}
Zeros(n) == [i \in 1..n |-> 0]
\* payloads of every length up to one more than PayloadLen::MAX
Payloads ==
    {Zeros(n) : n \in 0..(PayloadLenMAX + 1)} \cup {<<13>>, <<255, 13>>, <<1, 2, 3>>}
Frames ==
    {Frame(m, f, t, p) : m \in FrameMessageIds, f \in FrameIds, t \in PayloadTypes,
                         p \in Payloads}
\* a stream that takes every byte it is given in one write
Unlimited == PayloadLenMAX + 2
\* how many bytes the stream takes in one write
Accepts == {1, HEADER_LEN, Unlimited}
\* the bytes that follow the frame on the stream
Afters == {<<>>, <<13>>}

InitFrame ==
    /\ InitSystem
    /\ InitNoPeer
    /\ arg \in {[kind |-> "frame", frame |-> f, accepts |-> a, after |-> b, cut |-> k] :
                    f \in Frames, a \in Accepts, b \in Afters, k \in 0..MaxCut}
    /\ ret = NoValue

\* write_frame(frame) on the stream
write_frame ==
    /\ arg.kind = "frame"
    /\ ret = NoValue
    /\ LET w == WriteFrameTo(arg.frame, arg.accepts)
       IN  /\ ret' = [kind |-> "written", w |-> w]
           /\ wire' = w.bytes
    /\ UNCHANGED <<clientVars, writing, c2s, s2c, serverVars, lastRead, lifeVars,
                   peer, frameRes, arg, callerVars>>

\* the bytes behind the frame are written and the connection ends; the last
\* arg.cut bytes do not arrive
stream_close ==
    /\ arg.kind = "frame"
    /\ ret.kind = "written"
    /\ LET all == wire \o arg.after
       IN  wire' = SubSeq(all, 1, IF Len(all) < arg.cut THEN 0 ELSE Len(all) - arg.cut)
    /\ ret' = [kind |-> "closed", w |-> ret.w]
    /\ UNCHANGED <<clientVars, writing, c2s, s2c, serverVars, lastRead, lifeVars,
                   peer, frameRes, arg, callerVars>>

\* read_frame() on what arrived
read_frame ==
    /\ arg.kind = "frame"
    /\ ret.kind = "closed"
    /\ LET fr == ReadFrame(wire)
       IN  /\ ret' = [kind |-> "read", w |-> ret.w, r |-> fr, stream |-> wire]
           /\ wire' = fr.rest
    /\ UNCHANGED <<clientVars, writing, c2s, s2c, serverVars, lastRead, lifeVars,
                   peer, frameRes, arg, callerVars>>

NextFrame ==
    \/ write_frame
    \/ stream_close
    \/ read_frame

SpecFrame == InitFrame /\ [][NextFrame]_vars

(***************************************************************************)
(* The server on the frames of a peer that writes up to MaxRequests whole  *)
(* frames, with any frame_id and message_id, and closes the connection     *)
(***************************************************************************)
\* frames that carry a request header or an argument, under either frame_id
PeerFrames ==
    {Frame(m, f, "Header", RequestHeader(m, EchoName \o <<".">> \o EchoI32Name)) :
        m \in MessageIds, f \in FrameIds}
        \cup {Frame(m, f, "Data", I32(ArgOf(1))) : m \in MessageIds, f \in FrameIds}

PeerFrameScripts == UNION {[1..n -> PeerFrames] : n \in 0..MaxRequests}

RECURSIVE FramesBytes(_)
FramesBytes(frames) ==
    IF frames = <<>> THEN <<>> ELSE Encoded(Head(frames)) \o FramesBytes(Tail(frames))

InitFrames ==
    /\ InitSystem
    /\ InitNoFunction
    /\ frameRes = NoFrameRes
    /\ \E script \in PeerFrameScripts :
          /\ peer = [script |-> script, cut |-> 0]
          /\ wire = FramesBytes(script)

SpecFrames == InitFrames /\ [][NextWire]_vars

(***************************************************************************)
(* The split of a service_method (server.rs 66-79) applied to one string   *)
(***************************************************************************)
NameChars == {"a", "b", "c", "."}
ServiceMethods == UNION {[1..n -> NameChars] : n \in 0..MaxNameLen}

InitSplit ==
    /\ InitSystem
    /\ InitNoPeer
    /\ arg \in {[kind |-> "service_method", service_method |-> sm] : sm \in ServiceMethods}
    /\ ret = NoValue

\* 66-79: the names the loop looks up and passes on
split_service_method ==
    /\ arg.kind = "service_method"
    /\ ret = NoValue
    /\ LET split == SplitServiceMethod(arg.service_method)
       IN  ret' = [kind |-> "split", found |-> split.found,
                   service_name |-> split.service_name,
                   method_name |-> split.method_name]
    /\ UNCHANGED <<clientVars, writing, c2s, s2c, serverVars, lastRead, lifeVars,
                   wireVars, arg, callerVars>>

NextSplit == split_service_method

SpecSplit == InitSplit /\ [][NextSplit]_vars

(***************************************************************************)
(* PayloadRead::read_payload of the WebSocket transport                    *)
(* (toy-rpc/src/transport/ws/mod.rs 125-152) applied to the next item of   *)
(* the WebSocket stream                                                    *)
(***************************************************************************)
WsBytes == UNION {[1..n -> {0, 13}] : n \in 0..MaxWsLen}
WsTexts == UNION {[1..n -> {"a", "{"}] : n \in 0..MaxWsLen}

\* what self.next().await yields: the end of the stream, an error of
\* tungstenite, or a Message: Binary, Text, Ping, Pong or Close
WsItem(kind, bytes, text) == [kind |-> kind, bytes |-> bytes, text |-> text]
WsItems ==
    {WsItem("End", <<>>, <<>>), WsItem("Close", <<>>, <<>>)}
        \cup {WsItem("Err", <<>>, m) : m \in Messages}
        \cup {WsItem(k, b, <<>>) : k \in {"Binary", "Ping", "Pong"}, b \in WsBytes}
        \cup {WsItem("Text", <<>>, t) : t \in WsTexts}

ExpectingBinary == IoError(<<"E", "x", "p", "e", "c", "t", "i", "n", "g", " ", "W", "e", "b", "S", "o", "c", "k", "e", "t", ":", ":", "M", "e", "s", "s", "a", "g", "e", ":", ":", "B", "i", "n", "a", "r", "y">>)

\* what read_payload returns: None, Some(Ok(bytes)) or Some(Err(err))
PayloadResult(kind, bytes, err) == [kind |-> kind, bytes |-> bytes, err |-> err]

\* read_payload 130-151
ReadPayload(item) ==
    CASE item.kind = "End" -> PayloadResult("None", <<>>, NoError)
      [] item.kind = "Err" -> PayloadResult("Err", <<>>, IoError(item.text))
      [] item.kind = "Binary" -> PayloadResult("Ok", item.bytes, NoError)
      [] item.kind = "Close" -> PayloadResult("None", <<>>, NoError)
      [] OTHER -> PayloadResult("Err", <<>>, ExpectingBinary)

InitWs ==
    /\ InitSystem
    /\ InitNoPeer
    /\ arg \in {[kind |-> "read_payload", item |-> m] : m \in WsItems}
    /\ ret = NoValue

read_payload ==
    /\ arg.kind = "read_payload"
    /\ ret = NoValue
    /\ ret' = [kind |-> "payload", r |-> ReadPayload(arg.item)]
    /\ UNCHANGED <<clientVars, writing, c2s, s2c, serverVars, lastRead, lifeVars,
                   wireVars, arg, callerVars>>

NextWs == read_payload

SpecWs == InitWs /\ [][NextWs]_vars

(***************************************************************************)
(* Vocabulary of the properties                                            *)
(***************************************************************************)
CallId(c) == callReq[c].header.id
IsSentinel(m) == m.header.service_method = CANCELLATION_TOKEN
Sentinels(c) == SelectSeq(sent[c], IsSentinel)
\* the request of c was pushed to the request channel
Pushed(c) == Len(sent[c]) >= 1
\* the call was made and its task has neither resolved nor been cancelled
Unresolved(c) == pc[c] \in {"send", "insert", "select"}
\* cancel() was not invoked on c
NotCancelled(c) == cancelCh[c].st = "open"
\* c calls a method the server can resolve; its reply is then Ok(its argument)
CallsEcho(c) == callReq[c].header.service_method = EchoName \o <<".">> \o EchoI32Name
OwnReply(c) == [ok |-> TRUE, body |-> I32(ArgOf(c))]
\* the server wrote the response to c's request, and the reader has read it
ServerAnswered(c) ==
    \E i \in 1..Len(srvResponded) :
        /\ ~srvResponded[i].header.is_error
        /\ srvResponded[i].body = I32(ArgOf(c))
ResponseOnWire(c) ==
    \E i \in 1..Len(s2c) : s2c[i].frame_id = 1 /\ s2c[i].payload = I32(ArgOf(c))
ResponseReachedReader(c) == ServerAnswered(c) /\ ~ResponseOnWire(c)
Last(q) == q[Len(q)]

(***************************************************************************)
(* C1: from the push of a call's request to the request channel until its  *)
(* response is delivered or the call is cancelled, the pending map holds   *)
(* the entry of that call under its MessageId.                             *)
(***************************************************************************)
C1_PendingEntryWhileInFlight ==
    \A c \in Calls :
        (Pushed(c) /\ Unresolved(c) /\ respCh[c].st # "full")
            => pending[CallId(c)] = c

(***************************************************************************)
(* C2: a response that reached the reader for a call that was not          *)
(* cancelled is handed to that call: it is in the call's response channel  *)
(* or already resolved the caller's future with Ok(reply); it is never     *)
(* discarded.                                                              *)
(***************************************************************************)
C2_ResponseReachesCaller ==
    \A c \in Calls :
        (CallsEcho(c) /\ NotCancelled(c) /\ ResponseReachedReader(c))
            => \/ respCh[c] = Oneshot("full", OwnReply(c))
               \/ done[c] = Oneshot("full", OwnReply(c))

(***************************************************************************)
(* C3: a read_once either removes the entry of the id it read and wakes    *)
(* that entry's receiver with the response, or finds no entry and drops    *)
(* the response.                                                           *)
(***************************************************************************)
C3_DeliveredOrDropped ==
    /\ lastRead.entry # NoCall => lastRead.woke
    /\ lastRead.woke => respCh[lastRead.entry].st \in {"full", "received"}
    /\ lastRead.entry = NoCall => ~lastRead.woke /\ ~lastRead.err

(***************************************************************************)
(* C4: a caller that resolves, resolves with the reply to its own request, *)
(* never with the reply to another call.                                   *)
(***************************************************************************)
C4_OwnReplyOnly ==
    \A c \in Calls :
        done[c].st = "full" => (CallsEcho(c) /\ done[c].val = OwnReply(c))

(***************************************************************************)
(* C5: no two calls that are in flight at the same time share a MessageId. *)
(***************************************************************************)
C5_UniqueInFlightIds ==
    \A c1, c2 \in Calls :
        (c1 # c2 /\ Unresolved(c1) /\ Unresolved(c2)) => CallId(c1) # CallId(c2)

(***************************************************************************)
(* C6: the sentinel of a cancelled call.                                   *)
(***************************************************************************)
\* the sentinel the claim describes: {id: X, "!CANCEL"}, body "!CANCEL.<X>"
ExpectedSentinel(id) ==
    [header |-> [id |-> id, service_method |-> <<"!", "C", "A", "N", "C", "E", "L">>],
     body |-> Str(<<"!", "C", "A", "N", "C", "E", "L", ".">> \o ToDecimal(id))]

\* C6 as stated: once the task of a call on which cancel() was invoked has
\* ended, it has enqueued exactly one sentinel, the expected one (calls whose
\* response channel another call closed are left out)
C6_ExactlyOneSentinel ==
    \A c \in Calls :
        (~NotCancelled(c) /\ pc[c] \in {"cancelled", "done"} /\ respCh[c].st # "closed")
            => Sentinels(c) = <<ExpectedSentinel(CallId(c))>>

\* C6 as amended: a call task enqueues at most one sentinel, only after
\* cancel() was invoked on its call; it enqueues exactly one, with header
\* {id: X, "!CANCEL"} and body "!CANCEL.<X>", when its select takes the cancel
\* branch, and none when the response branch wins the race.
C6_SentinelOnCancelBranch ==
    \A c \in Calls :
        /\ Len(Sentinels(c)) <= 1
        /\ Len(Sentinels(c)) = 1 => ~NotCancelled(c)
        /\ pc[c] = "cancelled" => Sentinels(c) = <<ExpectedSentinel(CallId(c))>>
        /\ pc[c] # "cancelled" => Sentinels(c) = <<>>

\* a call with a non-zero id was cancelled and its sentinel reached the wire
C6_Witness ==
    \E c \in Calls :
        /\ pc[c] = "cancelled"
        /\ CallId(c) = 1
        /\ \E i \in 1..Len(c2s) :
              /\ c2s[i].frame_id = 1
              /\ c2s[i].payload = ExpectedSentinel(1).body

(***************************************************************************)
(* C7: once the task of call X has processed cancel(), the pending map no  *)
(* longer holds X's entry.                                                 *)
(***************************************************************************)
C7_EntryRemovedOnCancel ==
    \A c \in Calls : pc[c] = "cancelled" => pending[CallId(c)] # c

(***************************************************************************)
(* C8: a read_once that reads the response of an already cancelled call    *)
(* returns Ok, wakes no caller and leaves the entries of other ids alone.  *)
(***************************************************************************)
C8_LateResponseDiscarded ==
    [][(/\ Len(s2c) >= 2
        /\ s2c' = SubSeq(s2c, 3, Len(s2c))
        /\ \E c \in Calls : pc[c] = "cancelled" /\ CallId(c) = s2c[1].payload.id)
        => (/\ ~lastRead'.err
            /\ ~lastRead'.woke
            /\ respCh' = respCh
            /\ \A id \in MessageIds :
                  id # s2c[1].payload.id => pending'[id] = pending[id])]_vars

(***************************************************************************)
(* C9: a call issued after a cancellation was sent is still served: while  *)
(* it waits, the server that has just read the sentinel is still running   *)
(* its loop.                                                               *)
(***************************************************************************)
C9_ServedAfterCancel ==
    \A c \in Calls :
        (/\ afterCancel[c] /\ Unresolved(c) /\ NotCancelled(c)
         /\ srvReceived # <<>>
         /\ Last(srvReceived).service_method = CANCELLATION_TOKEN)
            => spc # "err"

(***************************************************************************)
(* C10: whenever _serve_codec is not in the middle of a request, it has    *)
(* written exactly one response, with the request's id, for every          *)
(* non-cancellation request header it read.                                *)
(***************************************************************************)
NotCancellation(header) == header.service_method # CANCELLATION_TOKEN
IdsOf(headers) == [i \in 1..Len(headers) |-> headers[i].id]
RespondedIds == [i \in 1..Len(srvResponded) |-> srvResponded[i].header.id]
C10_ExactlyOneResponse ==
    spc # "body" => RespondedIds = IdsOf(SelectSeq(srvReceived, NotCancellation))

(***************************************************************************)
(* C11: for every request header _serve_codec has read whose               *)
(* service_method cannot be resolved (no '.', or a service name that is    *)
(* not registered) and that it is no longer working on, the server has     *)
(* read the body and written the response {id, is_error: true} with body   *)
(* RpcError::MethodNotFound.                                               *)
(***************************************************************************)
Unresolvable(header) ==
    LET pos == RFind(header.service_method, ".")
    IN  \/ pos = 0
        \/ SubSeq(header.service_method, 1, pos - 1) \notin RegisteredServices
MethodNotFoundResponse(id) ==
    [header |-> [id |-> id, is_error |-> TRUE],
     body |-> RpcErrorBody("MethodNotFound", <<>>)]
C11_UnresolvedAnswered ==
    \A i \in 1..Len(srvReceived) :
        (/\ NotCancellation(srvReceived[i])
         /\ Unresolvable(srvReceived[i])
         /\ (i < Len(srvReceived) \/ spc \notin {"header", "body"}))
            => \E j \in 1..Len(srvResponded) :
                  srvResponded[j] = MethodNotFoundResponse(srvReceived[i].id)

(***************************************************************************)
(* C12: a per-call error does not end the connection: after reading a      *)
(* request that is not a cancellation, whatever its service and method,    *)
(* the per-connection loop of the server has not returned.                 *)
(***************************************************************************)
C12_LoopSurvivesCallError ==
    (srvReceived # <<>> /\ NotCancellation(Last(srvReceived))) => spc # "err"

(***************************************************************************)
(* C20: the server writes no response on behalf of a cancellation          *)
(* sentinel: the responses it has written answer, in order, the requests   *)
(* it read that are not sentinels, and reading a sentinel writes nothing.  *)
(***************************************************************************)
IsPrefix(p, q) == Len(p) <= Len(q) /\ p = SubSeq(q, 1, Len(p))
C20_NoResponseForSentinel ==
    /\ IsPrefix(RespondedIds, IdsOf(SelectSeq(srvReceived, NotCancellation)))
    /\ (srvReceived # <<>> /\ ~NotCancellation(Last(srvReceived)))
          => spc # "body"

\* the server answered a request and then read the sentinel of a cancelled call
C20_Witness ==
    /\ srvResponded # <<>>
    /\ srvReceived # <<>>
    /\ Last(srvReceived).service_method = CANCELLATION_TOKEN
    /\ \E c \in Calls : pc[c] = "cancelled" /\ CallId(c) = Last(srvReceived).id

(***************************************************************************)
(* C17: the response _send_response writes for a handler result: Ok(reply) *)
(* gives {id, is_error: false} and the reply; Err(RpcError(e)) gives       *)
(* {id, is_error: true} and e itself; any other Err(e) gives               *)
(* {id, is_error: true} and RpcError::ServerError(e.to_string()).          *)
(***************************************************************************)
C17_ResponseEncoding ==
    ret.kind = "response" =>
        /\ ret.header.id = arg.id
        /\ ret.header.is_error = ~arg.res.ok
        /\ arg.res.ok => ret.body = arg.res.val
        /\ (~arg.res.ok /\ arg.res.err = "RpcError") => ret.body = arg.res.val
        /\ (~arg.res.ok /\ arg.res.err # "RpcError") =>
              ret.body = [t |-> "RpcError", n |-> 0, e |-> "ServerError",
                          s |-> ErrorToString(arg.res.val)]
        /\ s2c = <<Frame(arg.id, 0, "Header", ret.header),
                   Frame(arg.id, 1, "Data", ret.body)>>

\* a handler failed with an error that is not an RpcError and the response
\* carries its text
C17_Witness ==
    /\ ret.kind = "response"
    /\ arg.res.err = "TransportError"
    /\ ret.header = [id |-> 1, is_error |-> TRUE]
    /\ ret.body = RpcErrorBody("ServerError",
                     <<"E", "x", "p", "e", "c", "t", "e", "d", ":", " ", "1",
                       ",", " ", "F", "o", "u", "n", "d", ":", " ", "2">>)

(***************************************************************************)
(* C13: a read error ends the reader: once read_once has returned a frame  *)
(* or codec read error, the reader task is no longer in its loop (and the  *)
(* calls outstanding are then resolved with an error).                     *)
(***************************************************************************)
C13_ReaderStopsOnError ==
    (readErrs # <<>> /\ \E c \in Calls : pc[c] = "select" /\ respCh[c].st = "empty")
        => rpc = "exited"

(***************************************************************************)
(* C14: after the Client is dropped, the reader task and the writer task   *)
(* both leave their loops, whatever they were doing.                       *)
(***************************************************************************)
C14_TasksExitAfterDrop ==
    dropped ~> (rpc = "exited" /\ wpc = "exited")

\* both tasks have exited after a drop that found the writer between the
\* header frame and the body frame of a request, with requests still queued
C14_Witness ==
    /\ dropped
    /\ rpc = "exited"
    /\ wpc = "exited"
    /\ Len(taken) >= 2
    /\ Len(written) % 2 = 1

(***************************************************************************)
(* C15: when the writer task has exited, every request that had been       *)
(* pushed to the request channel when the Client was dropped, and every    *)
(* request the writer took from the channel, was written completely: its   *)
(* header frame followed by its body frame.                                *)
(***************************************************************************)
WrittenCompletely(req) ==
    \E i \in 1..(Len(written) - 1) :
        /\ written[i] = Frame(req.header.id, 0, "Header", req.header)
        /\ written[i + 1] = Frame(req.header.id, 1, "Data", req.body)
C15_DrainedBeforeExit ==
    wpc = "exited" =>
        /\ \A req \in pushedAtDrop : WrittenCompletely(req)
        /\ \A i \in 1..Len(taken) : WrittenCompletely(taken[i])

(***************************************************************************)
(* C16: in each direction the frames on the wire are a sequence of         *)
(* messages: a header frame (frame_id 0, Header) immediately followed by   *)
(* one body frame (frame_id 1, Data) with the same message_id; a header    *)
(* frame is last only while its writer is in the middle of that message.   *)
(***************************************************************************)
WellFramed(q) ==
    \A i \in 1..Len(q) :
        IF i % 2 = 1
        THEN /\ q[i].frame_id = 0
             /\ q[i].payload_type = "Header"
        ELSE /\ q[i].frame_id = 1
             /\ q[i].payload_type = "Data"
             /\ q[i].message_id = q[i - 1].message_id
C16_MessagesNeverInterleave ==
    /\ WellFramed(written)
    /\ Len(written) % 2 = 1 => (wpc = "running" /\ writing # <<>>)
    /\ WellFramed(s2c)
    /\ Len(s2c) % 2 = 0

(***************************************************************************)
(* C18: when the peer has sent n complete requests and closed the          *)
(* connection cleanly, the per-connection loop of the server ends with     *)
(* Ok(()) and has answered the n requests, in order.                       *)
(***************************************************************************)
CleanClose ==
    /\ peer.cut = 0
    /\ \A i \in 1..Len(peer.script) : peer.script[i].kind = "request"
C18_CleanCloseEndsOk ==
    (CleanClose /\ spc \notin {"header", "body"})
        => /\ spc = "ok"
           /\ RespondedIds = [i \in 1..Len(peer.script) |-> peer.script[i].req.header.id]

(***************************************************************************)
(* C19: when the first byte read for a frame is not 0x0D, read_frame       *)
(* returns Some(Err(TransportError)) with the magic-mismatch message and   *)
(* no Frame; the per-connection loop of the server ends there, and the     *)
(* server writes no response after it.                                     *)
(***************************************************************************)
C19_BadMagicEndsLoop ==
    (frameRes.first # -1 /\ frameRes.first # 13)
        => /\ frameRes.kind = "Err"
           /\ frameRes.err.kind = "TransportError"
           /\ frameRes.err.msg = <<"M", "a", "g", "i", "c", " ", "b", "y", "t", "e", " ",
                                   "m", "i", "s", "m", "a", "t", "c", "h", ".">>
           /\ spc = "err"
           /\ Len(srvResponded) = frameRes.responded

\* the server answered a request, then read 0x00 where a frame should start,
\* with more bytes behind it
C19_Witness ==
    /\ frameRes.first = 0
    /\ frameRes.kind = "Err"
    /\ srvResponded # <<>>
    /\ wire # <<>>

(***************************************************************************)
(* C21: frame round trip: when write_frame(F) has returned Ok and all the  *)
(* bytes of the stream arrive, read_frame returns Some(Ok(F')) with F'     *)
(* equal to F field by field, and leaves unread exactly the bytes that     *)
(* follow the frame.                                                       *)
(***************************************************************************)
C21_FrameRoundTrip ==
    (ret.kind = "read" /\ ret.w.ok /\ arg.cut = 0)
        => /\ ret.r.kind = "Frame"
           /\ ret.r.frame.message_id = arg.frame.message_id
           /\ ret.r.frame.frame_id = arg.frame.frame_id
           /\ ret.r.frame.payload_type = arg.frame.payload_type
           /\ ret.r.frame.payload = arg.frame.payload
           /\ ret.r.rest = arg.after

(***************************************************************************)
(* C22: read_frame returns None only when the stream ends before the magic *)
(* byte; when it ends after the magic byte, inside the frame header or the *)
(* payload, read_frame returns Some(Err(IoError)).                         *)
(***************************************************************************)
C22_TruncatedFrameIsError ==
    ret.kind = "read" =>
        /\ ret.r.kind = "None" => ret.stream = <<>>
        /\ (ret.stream # <<>> /\ ret.stream[1] = 13 /\ ret.r.kind # "Frame")
              => (ret.r.kind = "Err" /\ ret.r.err.kind = "IoError")

(***************************************************************************)
(* C23: write_frame of a payload longer than PayloadLen::MAX returns       *)
(* Err(TransportError) and writes no byte; a payload of up to exactly      *)
(* PayloadLen::MAX bytes is accepted and the payload_len of its header is  *)
(* the length of the payload.                                              *)
(***************************************************************************)
C23_PayloadLengthLimit ==
    ret.kind \in {"written", "closed", "read"} =>
        /\ Len(arg.frame.payload) > 2^PayloadLenBits - 1 =>
              /\ ~ret.w.ok
              /\ ret.w.err.kind = "TransportError"
              /\ ret.w.bytes = <<>>
              /\ ret.kind = "written" => wire = <<>>
        /\ Len(arg.frame.payload) <= 2^PayloadLenBits - 1 =>
              /\ ret.w.ok
              /\ ret.w.payload_len = Len(arg.frame.payload)
              /\ Len(ret.w.bytes) >= 9 =>
                    FromLE(SubSeq(ret.w.bytes, 6, 9)) = Len(arg.frame.payload)

\* a payload of exactly PayloadLen::MAX bytes was written whole, its length
\* in the header
C23_Witness ==
    /\ ret.kind = "written"
    /\ Len(arg.frame.payload) = 2^PayloadLenBits - 1
    /\ ret.w.ok
    /\ Len(wire) = 1 + 8 + Len(arg.frame.payload)
    /\ SubSeq(wire, 6, 9) = <<2^PayloadLenBits - 1, 0, 0, 0>>

(***************************************************************************)
(* C24: on the WebSocket transport a Text message is rejected as a         *)
(* transport error: read_payload returns Some(Err(TransportError)) for it  *)
(* and hands no payload bytes on.                                          *)
(***************************************************************************)
C24_TextRejectedAsTransportError ==
    (ret.kind = "payload" /\ arg.item.kind = "Text")
        => /\ ret.r.kind = "Err"
           /\ ret.r.err.kind = "TransportError"
           /\ ret.r.bytes = <<>>

(***************************************************************************)
(* C25: a fatal write error ends the writer task: once write_request has   *)
(* failed, writer_loop has left its loop, and it attempts no further write *)
(* on the broken connection.                                               *)
(***************************************************************************)
C25_WriterStopsOnFatalError ==
    writeErrs # <<>> => (wpc = "exited" /\ Len(writeErrs) = 1)

(***************************************************************************)
(* C26: when reading the body of a request fails on the server (no body    *)
(* frame before the end of the stream, or a read error), the server writes *)
(* the response {id, is_error: true} with an internal error for that       *)
(* request; it neither panics nor ends the loop without a response.        *)
(***************************************************************************)
C26_BodyReadFailureAnswered ==
    (frameRes.at = "body" /\ frameRes.kind \in {"None", "Err"})
        => /\ spc # "panic"
           /\ Len(srvResponded) = frameRes.responded + 1
           /\ Last(srvResponded).header = [id |-> scur.id, is_error |-> TRUE]
           /\ Last(srvResponded).body.t = "RpcError"
           /\ Last(srvResponded).body.e = "InternalError"

(***************************************************************************)
(* C27: when the task of a new call reaches the pending map and the entry  *)
(* of its MessageId holds the sender of a call that is still in flight,    *)
(* the new call is rejected with Err(Internal): the pending map is left    *)
(* unchanged, the sender of the call in flight is not replaced or dropped, *)
(* and the new call does not go on to wait for a response.                 *)
(***************************************************************************)
C27_IdCollisionRejected ==
    [][\A c \in Calls :
          (/\ pc[c] = "insert"
           /\ pc'[c] # "insert"
           /\ pending[CallId(c)] \notin {NoCall, c}
           /\ Unresolved(pending[CallId(c)]))
              => /\ pending' = pending
                 /\ respCh'[pending[CallId(c)]] = respCh[pending[CallId(c)]]
                 /\ pc'[c] # "select"
                 /\ done'[c] = Oneshot("full", [ok |-> FALSE, body |-> ErrorValue("Internal")])]_vars

(***************************************************************************)
(* C28: the codec reader accepts a header only from a frame with frame_id  *)
(* 0, and a body only from a frame with frame_id 1 whose message_id is     *)
(* that of the header just read.                                           *)
(***************************************************************************)
C28_HeaderAndBodyPaired ==
    frameRes.accepted =>
        /\ frameRes.at = "header" => frameRes.frame_id = 0
        /\ frameRes.at = "body" =>
              (frameRes.frame_id = 1 /\ frameRes.message_id = scur.id)

(***************************************************************************)
(* C29: when the cancellation sentinel of call X has reached the server    *)
(* while the server is still working on the request of X, the handler is   *)
(* stopped and the server emits no reply for X from then on.               *)
(***************************************************************************)
\* the header frame of the sentinel for id has arrived and is not yet read
SentinelArrived(id) ==
    \E i \in 1..Len(c2s) :
        /\ c2s[i].frame_id = 0
        /\ c2s[i].payload_type = "Header"
        /\ c2s[i].payload = RequestHeader(id, CANCELLATION_TOKEN)
\* the request the server is working on is that of the one call made with id,
\* and that call was cancelled
ServingCancelledCall(id) ==
    /\ spc = "body"
    /\ scur.id = id
    /\ Cardinality({c \in Calls : pc[c] # "unissued" /\ CallId(c) = id}) = 1
    /\ \E c \in Calls : pc[c] = "cancelled" /\ CallId(c) = id
C29_NoReplyAfterCancel ==
    [][\A id \in MessageIds :
          (ServingCancelledCall(id) /\ SentinelArrived(id))
              => ~(/\ Len(srvResponded') > Len(srvResponded)
                   /\ Last(srvResponded').header.id = id)]_vars

(***************************************************************************)
(* C30: the server splits service_method at its rightmost '.': the service *)
(* name it looks up is everything before the last '.', the method name it  *)
(* passes to the handler everything after it, so the method name holds no  *)
(* '.'; a service_method without '.' is not split.                         *)
(***************************************************************************)
HasDot(str) == \E i \in 1..Len(str) : str[i] = "."
C30_SplitAtRightmostDot ==
    ret.kind = "split" =>
        /\ ret.found = HasDot(arg.service_method)
        /\ ret.found =>
              /\ ret.service_name \o <<".">> \o ret.method_name = arg.service_method
              /\ ~HasDot(ret.method_name)

\* "a.b.c" was split into the service "a.b" and the method "c"
C30_Witness ==
    /\ ret.kind = "split"
    /\ arg.service_method = <<"a", ".", "b", ".", "c">>
    /\ ret.service_name = <<"a", ".", "b">>
    /\ ret.method_name = <<"c">>

(***************************************************************************)
(* C31: a call resolves at most once and with one outcome: the caller's    *)
(* Call never yields both the server's reply and a cancellation, and once  *)
(* the call task has taken the cancel branch of its select! the caller is  *)
(* not given the server's reply, whatever the order in which the response  *)
(* and cancel() arrive.                                                    *)
(***************************************************************************)
IsReply(o) == o.kind = "reply"
IsCanceled(o) == o.kind = "Canceled"
\* the select! of c's task ran its cancel branch
TookCancelBranch(c) == pc[c] \in {"cancelled", "abandoned"} \/ Sentinels(c) # <<>>
C31_ResolvesOnce ==
    \A c \in Calls :
        /\ Len(observed[c]) <= 1
        /\ ~(/\ SelectSeq(observed[c], IsReply) # <<>>
             /\ SelectSeq(observed[c], IsCanceled) # <<>>)
        /\ TookCancelBranch(c) =>
              /\ SelectSeq(observed[c], IsReply) = <<>>
              /\ done[c].st # "full"

\* the reader had handed the response to the call when its task took the
\* cancel branch, and the caller, still holding the Call, got Canceled
C31_Witness ==
    \E c \in Calls :
        /\ pc[c] = "cancelled"
        /\ lastRead.entry = c
        /\ lastRead.woke
        /\ observed[c] = <<Outcome("Canceled", NoResult)>>

(***************************************************************************)
(* C32: a call task enqueues a cancellation sentinel only if cancel() was  *)
(* invoked on its call: when the cancel channel closes without a value     *)
(* because the Call was dropped, the task ends and has enqueued no         *)
(* "!CANCEL" request.                                                      *)
(***************************************************************************)
C32_SentinelOnlyOnCancel ==
    \A c \in Calls :
        /\ Sentinels(c) # <<>> => cancelCh[c].st = "sent"
        /\ cancelCh[c].st = "closed" =>
              /\ \A i \in 1..Len(sent[c]) : sent[c][i] = callReq[c]
              /\ \A i \in 1..Len(requests) :
                    requests[i].header.id = CallId(c) => ~IsSentinel(requests[i])
              /\ \A i \in 1..Len(taken) :
                    taken[i].header.id = CallId(c) => ~IsSentinel(taken[i])

\* the Call was dropped while its task waited in select!, the task ended
\* through the cancel branch, and its request was written to the server
C32_Witness ==
    \E c \in Calls :
        /\ pc[c] = "abandoned"
        /\ cancelCh[c].st = "closed"
        /\ \E i \in 1..Len(taken) : taken[i] = callReq[c]
        /\ writing = <<>>

(***************************************************************************)
(* C33: cancelling the call with MessageId X changes nothing for the       *)
(* other calls: the step in which the task of X processes cancel() leaves  *)
(* the pending-map entry of every other id as it was, and a call with      *)
(* another id that waits for its response can still get it: the server     *)
(* goes on serving.                                                        *)
(***************************************************************************)
\* every call made so far calls a method the server resolves
OnlyEchoCalls == \A y \in Calls : pc[y] # "unissued" => CallsEcho(y)
\* x has another id than the cancelled call c and waits for its response
WaitsBeside(x, c) ==
    /\ x # c
    /\ pc[c] = "cancelled"
    /\ CallId(x) # CallId(c)
    /\ Pushed(x)
    /\ Unresolved(x)
    /\ NotCancelled(x)
C33_CancelLeavesOthersAlone ==
    [][/\ \A c \in Calls :
            (pc[c] = "select" /\ pc'[c] = "cancelled")
                => \A id \in MessageIds \ {CallId(c)} : pending'[id] = pending[id]
       /\ (OnlyEchoCalls /\ \E c, x \in Calls : WaitsBeside(x, c))'
                => spc' \notin {"err", "panic"}]_vars

(***************************************************************************)
(* C34: _serve_codec handles the requests of a connection one at a time:   *)
(* when it reads a request header every request read before has its        *)
(* response written, at most one request is being handled, and the         *)
(* responses written are, in order, those of the requests in the order in  *)
(* which they arrived on the connection.                                   *)
(***************************************************************************)
\* the i-th request the client's writer put on the connection: its header
\* frame and its body frame
ArrivedHeader(i) == written[2 * i - 1].payload
ArrivedBody(i) == written[2 * i].payload
C34_OneRequestAtATime ==
    /\ spc = "header" => Len(srvResponded) = Len(srvReceived)
    /\ spc = "body" => Len(srvReceived) = Len(srvResponded) + 1
    /\ Len(srvReceived) <= Len(srvResponded) + 1
    /\ \A i \in 1..Len(srvReceived) : srvReceived[i] = ArrivedHeader(i)
    /\ \A i \in 1..Len(srvResponded) :
          /\ srvResponded[i].header.id = ArrivedHeader(i).id
          /\ srvResponded[i] =
                SendResponse(ArrivedHeader(i).id,
                             HandlerOk(I32(DeserializeI32(Marshal(ArrivedBody(i))))))

\* the server is handling its second request while a third one has already
\* arrived in full behind it
C34_Witness ==
    /\ spc = "body"
    /\ Len(srvResponded) = 1
    /\ Len(c2s) = 3
    /\ ArrivedBody(1) # ArrivedBody(2)

====
